---- MODULE Spec2Model ----
(***************************************************************************)
(* JobHub job control plane: the registry of src/src/server/state.rs      *)
(* (ApiStateInner) and the per-job runner of src/src/server/task.rs       *)
(* (Task / Handle), as a state machine.                                    *)
(*                                                                         *)
(* A job slot j stands for one call of run_download_task or                *)
(* run_gs_log_to_locust_converter_task together with the tokio task that   *)
(* call spawns (runner, then the 900 s retention sleep, then the removal). *)
(* A caller slot c stands for one HTTP handler running cancel_task; it is  *)
(* only ever "in flight" while its send on the cancel channel is pending.  *)
(***************************************************************************)
EXTENDS Integers, Sequences, FiniteSets, TLC

\* ---------------------------------------------------------------- bounds
MaxJobs == 2
MaxCallers == 1

Jobs == 1..MaxJobs
Callers == 1..MaxCallers
\* Chat ids are opaque uuid strings that the code only compares for equality.
ChatSeq == <<"chat-a", "chat-b">>
ChatIds == {ChatSeq[i] : i \in 1..Len(ChatSeq)}
Kinds == {"Download", "Converter"}

VARIABLES
    current_id,   \* ApiStateInner.current_id (AtomicU32)
    tasks,        \* ApiStateInner.tasks: HashMap<String, TaskData>
    pc,           \* per job: position of the submission / spawned task
    kind,         \* per job: which submission function was called
    chat,         \* per job: the chat_id argument of the submission
    local_id,     \* per job: the local `id` read by increment_current_task_id
    status,       \* per job: Data.status
    hist,         \* per job: every value stored in Data.status, in order
    chan,         \* per job: number of messages buffered in mpsc::channel(1)
    cpc,          \* per caller: "idle" or "send" (send().await pending)
    creq,         \* per caller: the (id, chat_id) of the pending cancel_task
    ret,          \* what the step into this state returned to its HTTP client
                  \* (NoRet when that step returned nothing to a client)
    wguard,       \* the job whose submission holds the write guard on `tasks`
                  \* between its insert and its return (0: none)
    share_url,    \* utils: the url::Url handed to the converter
    download_url, \* utils: what the converter returned for share_url
    zip_len,      \* Task::unzip: zip.len()
    zip_i,        \* Task::unzip: the loop index i
    zip_entry,    \* Task::unzip: the entry name and the path of the latest pass
    extracted,    \* Task::unzip: the paths File::create has created
    unzip_ret,    \* Task::unzip: its return value (None while it runs)
    tail,         \* broadcast channel: position of the next value sent
    next,         \* per connection: the position its Receiver reads next
    conn,         \* per connection: "none", "open" or "closed"
    bret,         \* what the latest step on the bus did (NoBusRet: nothing)
    sel,          \* one tokio::select! of run_os_process, with its inputs
    recv_task,    \* one connection: position of process_incoming
    send_task,    \* one connection: position of process_outgoing
    internal,     \* one connection: the buffer of its mpsc::channel(1)
    accept,       \* one connection: position of accept_connection
    ws_in,        \* one connection: the inbound frames read so far
    ws_out,       \* one connection: the frames written to the socket
    client_messages, \* one connection: messages sent on client_messages_sender
    ctr,          \* the counter alone: the AtomicU32 current_id, as two u16 halves
    ctr_id,       \* the counter alone: the local `id` of the call in progress
    ctr_ret,      \* the counter alone: what the latest call came to
    overflow_checks, \* the counter alone: the build's overflow-checks setting
    calls,        \* the counter alone: the calls of increment_current_task_id so far
    dl_pc,        \* one download: position of the pipeline future
    dl_status,    \* one download: the status the runner stored last
    spawned       \* one download: spawn_blocking has started Task::unzip

\* The variables of the job control plane.
jobvars == <<current_id, tasks, pc, kind, chat, local_id, status, hist, chan,
             cpc, creq, ret, wguard>>

\* The variables outside the job control plane.
urlvars == <<share_url, download_url>>
zipvars == <<zip_len, zip_i, zip_entry, extracted, unzip_ret>>
busvars == <<tail, next, conn, bret>>
selvars == <<sel>>
wsvars == <<recv_task, send_task, internal, accept, ws_in, ws_out, client_messages>>
ctrvars == <<ctr, ctr_id, ctr_ret, overflow_checks, calls>>
dlvars == <<dl_pc, dl_status, spawned>>
restvars == <<wsvars, ctrvars, dlvars>>
side == <<urlvars, zipvars, busvars, selvars, restvars>>

vars == <<jobvars, side>>

\* ---------------------------------------------------------------- values
None == <<"None">>
Some(v) == <<"Some", v>>

NoStatus == [type |-> "-", status |-> "-", content |-> "-"]
ProcessStatus(s, c) == [type |-> "Process", status |-> s, content |-> c]
DownloadZipFileStatus(s, c) == [type |-> "Download", status |-> s, content |-> c]

TerminalNames == {"Exited", "Canceled", "Timeout", "Failed"}
IsTerminal(s) == s.status \in TerminalNames

Digit(d) ==
    CASE d = 0 -> "0" [] d = 1 -> "1" [] d = 2 -> "2" [] d = 3 -> "3"
      [] d = 4 -> "4" [] d = 5 -> "5" [] d = 6 -> "6" [] d = 7 -> "7"
      [] d = 8 -> "8" [] d = 9 -> "9"

RECURSIVE to_string(_)
to_string(n) == IF n < 10 THEN Digit(n) ELSE to_string(n \div 10) \o Digit(n % 10)

\* The ids a client asks about: every id the bounded run can allocate.
QueryIds == {to_string(n) : n \in 0..(MaxJobs - 1)}

NoReq == [id |-> "-", chat_id |-> "-"]
NoRet == [op |-> "-", id |-> "-", chat_id |-> "-", res |-> None,
          waited |-> FALSE, http |-> [code |-> 0, body |-> "-"],
          api_key |-> None]

\* ---------------------------------------------------------------- helpers
\* Positions of a job slot.
\*   idle   the submission has not been called
\*   loaded current_id.load done, store pending
\*   wlock  store and Task::new done, tasks.write().await pending
\*   start  record inserted and task spawned; runner not yet polled
\*   race   status Running written, runner inside tokio::select!
\*   t_kill / t_wait   timeout branch: child.kill() / child.wait() pending
\*   c_kill / c_wait   cancel branch: child.kill() / child.wait() pending
\*   sleep  run_* returned (Task dropped), tokio::time::sleep(900 s) pending
\*   evict  sleep over, tasks.write().await pending
\*   done   tasks.remove(&task_id) executed; Task and Handle are both gone,
\*          so the job's Data is freed
PreInsert == {"idle", "loaded", "wlock"}
Returned(j) == pc[j] \notin PreInsert /\ wguard # j

\* The Task (and its mpsc::Receiver) lives from Task::new until run_* returns.
RxAlive(j) == pc[j] \in {"wlock", "start", "race", "t_kill", "t_wait", "c_kill", "c_wait"}

\* The Handle (the only mpsc::Sender) lives in the submission's frame until
\* the insert and after that exactly as long as the map holds it.
HandleAlive(j) ==
    \/ pc[j] = "wlock"
    \/ \E k \in DOMAIN tasks : tasks[k].handle = j

\* tokio::sync::RwLock on `tasks`: read guards are held by pending cancels,
\* write guards are only ever held within one step.  The lock is fair
\* (write-preferring): a queued writer keeps later readers out.
Readers == {c \in Callers : cpc[c] = "send"}
WriterWaiting == \E j \in Jobs : pc[j] \in {"wlock", "evict"}
WriteHeld == wguard # 0

TaskData(c, j) == [chat_id |-> c, handle |-> j]

HashMapInsert(m, k, v) == [x \in DOMAIN m \cup {k} |-> IF x = k THEN v ELSE m[x]]
HashMapRemove(m, k) == [x \in DOMAIN m \ {k} |-> m[x]]
HashMapGet(m, k) == IF k \in DOMAIN m THEN Some(m[k]) ELSE None

\* ---------------------------------------------------------------- utils.rs
\* A parsed url::Url: scheme(), host_str(), path_segments() and query().  A
\* path segment is its sequence of characters.
MaxSegments == 4
Segments ==
    {<<>>, <<"d">>, <<"A", "1", "-", "_">>, <<"x", "=", "y">>, <<"%", "2", "0">>}
Hosts == {"drive.google.com", "example.com"}

RECURSIVE SeqsUpTo(_, _)
SeqsUpTo(S, n) ==
    IF n = 0 THEN {<<>>}
    ELSE LET shorter == SeqsUpTo(S, n - 1) IN
         shorter \cup {Append(q, x) : q \in shorter, x \in S}

\* url::Url::parse keeps a host and a path of at least one segment for the
\* special schemes http and https; a mailto: URL has neither.
Urls ==
    {[scheme |-> sc, host |-> Some(h), path_segments |-> Some(ps), query |-> q] :
        sc \in {"https", "http"}, h \in Hosts,
        ps \in SeqsUpTo(Segments, MaxSegments) \ {<<>>},
        q \in {None, Some("usp=sharing")}}
    \cup {[scheme |-> "mailto", host |-> None, path_segments |-> None, query |-> None]}

NoUrl == [scheme |-> "-", host |-> None, path_segments |-> None, query |-> None]

Ok(v) == <<"Ok", v>>
Err(e) == <<"Err", e>>

\* Iterator::nth.
nth(it, n) == IF n + 1 <= Len(it) THEN Some(it[n + 1]) ELSE None

\* form_urlencoded::byte_serialize, which query_pairs_mut().append_pair applies
\* to the value: alphanumerics and * - . _ stay, a space becomes +, every other
\* byte is percent-encoded.
byte_serialize(c) ==
    CASE c = " " -> "+"
      [] c = "=" -> "%3D"
      [] c = "%" -> "%25"
      [] OTHER -> c

RECURSIVE append_pair_value(_)
append_pair_value(seg) ==
    IF seg = <<>> THEN ""
    ELSE byte_serialize(Head(seg)) \o append_pair_value(Tail(seg))

\* Variant of the converter that takes the second path segment (nth(1)).
convert_url_SecondSegment(u) ==
    IF u.scheme # "https" THEN Err("InvalidScheme")
    ELSE IF u.host = None THEN Err("NoHost")
    ELSE IF u.host[2] # "drive.google.com" THEN Err("InvalidHost")
    ELSE IF u.path_segments = None THEN Err("NoSegments")
    ELSE LET id == nth(u.path_segments[2], 1) IN
         IF id = None THEN Err("NoIdInPath")
         ELSE Ok("https://drive.google.com/uc?export=download" \o "&id="
                 \o append_pair_value(id[2]))

\* convert_google_share_or_view_url_to_download_url.
convert_google_share_or_view_url_to_download_url(u) ==
    IF u.scheme # "https" THEN Err("InvalidScheme")
    ELSE IF u.host = None THEN Err("NoHost")
    ELSE IF u.host[2] # "drive.google.com" THEN Err("InvalidHost")
    ELSE IF u.path_segments = None THEN Err("NoSegments")
    ELSE LET id == nth(u.path_segments[2], 2) IN
         IF id = None THEN Err("NoIdInPath")
         ELSE Ok("https://drive.google.com/uc?export=download" \o "&id="
                 \o append_pair_value(id[2]))

UrlIdle == share_url = NoUrl /\ download_url = None

\* routes::download_zip_file up to the conversion: the parsed link is handed
\* to the converter.
Convert ==
    /\ download_url = None
    /\ download_url' = Some(convert_google_share_or_view_url_to_download_url(share_url))
    /\ UNCHANGED <<share_url, jobvars, selvars, restvars, zipvars, busvars>>

\* ---------------------------------------------------------------- unzip
\* A path or an entry name is the sequence of its segments, the pieces between
\* the `/` separators: "a/b/" is <<"a", "b", "">> and "/etc" is <<"", "etc">>.
MaxEntries == 3
MaxDepth == 3
NameSegments == {"", ".", "..", "a", "c.txt"}
EntryNames == SeqsUpTo(NameSegments, MaxDepth) \ {<<>>}

\* ApiStateInner::project_dir: PathBuf::from(projects_dir).join(project_name).
project_dir == <<"projects", "p">>

\* Path::has_root.
has_root(p) == Len(p) >= 2 /\ p[1] = ""

\* Path::components: empty segments (repeated or trailing separators) and `.`
\* segments are dropped, except a `.` that starts a relative path.
RECURSIVE components(_)
components(p) ==
    IF p = <<>> THEN <<>>
    ELSE LET l == p[Len(p)]
             front == SubSeq(p, 1, Len(p) - 1) IN
         IF l = "" \/ (l = "." /\ Len(p) > 1)
           THEN components(front)
           ELSE Append(components(front), l)

\* Path::file_name: the last component if it is a normal one.
file_name(p) ==
    LET cs == components(p) IN
    IF cs = <<>> THEN None
    ELSE IF cs[Len(cs)] \in {"..", "."} THEN None
    ELSE Some(cs[Len(cs)])

\* Path::join: an absolute argument replaces the base.
join(base, p) == IF has_root(p) THEN p ELSE base \o p

\* Where the file system puts the file created at path p (no symlinks): the
\* root flag and the directory names down to the file.
RECURSIVE resolve(_)
resolve(p) ==
    IF p = <<>> THEN <<>>
    ELSE LET l == p[Len(p)]
             front == resolve(SubSeq(p, 1, Len(p) - 1)) IN
         IF l \in {"", "."} THEN front
         ELSE IF l = ".."
           THEN (IF front # <<>> /\ front[Len(front)] # ".."
                   THEN SubSeq(front, 1, Len(front) - 1)
                   ELSE IF has_root(p) THEN front ELSE Append(front, l))
           ELSE Append(front, l)
location(p) == [root |-> has_root(p), dirs |-> resolve(p)]

NoEntry == [name |-> <<>>, path |-> None]

ZipIdle ==
    /\ zip_len = 0
    /\ zip_i = 0
    /\ zip_entry = NoEntry
    /\ extracted = {}
    /\ unzip_ret = Some(Ok("-"))

\* Variant of unzip_path that joins the entry name as it is.
unzip_path_NotFlattened(name) == Some(join(project_dir, name))

\* Task::unzip, the path of one entry: `Strip all directories`, then join.
unzip_path(name) ==
    LET f == file_name(name) IN
    IF f = None THEN None ELSE Some(join(project_dir, <<f[2]>>))

\* Variant of unzip_entry that skips an entry whose path or file cannot be
\* made and goes on with the next one.
unzip_entry_SkipsFailed(name, io) ==
    /\ unzip_ret = None
    /\ zip_i < zip_len
    /\ LET path == unzip_path(name) IN
       IF io = "by_index"
         THEN /\ unzip_ret' = Some(Err("Zip"))
              /\ UNCHANGED <<zip_entry, extracted>>
         ELSE IF path = None \/ io = "create"
           THEN /\ zip_entry' = [name |-> name, path |-> None]
                /\ UNCHANGED <<extracted, unzip_ret>>
           ELSE /\ extracted' = extracted \cup {path[2]}
                /\ zip_entry' = [name |-> name, path |-> path]
                /\ unzip_ret' = IF io = "copy" THEN Some(Err("Io")) ELSE None
    /\ zip_i' = zip_i + 1
    /\ UNCHANGED <<zip_len, jobvars, selvars, restvars, urlvars, busvars>>

\* One pass of the loop of Task::unzip over the entry `name`.  io says which
\* fallible call fails: zip.by_index, File::create, io::copy, or none.
unzip_entry(name, io) ==
    /\ unzip_ret = None
    /\ zip_i < zip_len
    /\ LET path == unzip_path(name) IN
       IF io = "by_index"
         THEN /\ unzip_ret' = Some(Err("Zip"))
              /\ UNCHANGED <<zip_entry, extracted>>
         ELSE IF path = None
           THEN /\ unzip_ret' = Some(Err("Io(InvalidInput)"))
                /\ zip_entry' = [name |-> name, path |-> None]
                /\ UNCHANGED extracted
           ELSE IF io = "create"
             THEN /\ unzip_ret' = Some(Err("Io"))
                  /\ zip_entry' = [name |-> name, path |-> None]
                  /\ UNCHANGED extracted
             ELSE /\ extracted' = extracted \cup {path[2]}
                  /\ zip_entry' = [name |-> name, path |-> path]
                  /\ unzip_ret' = IF io = "copy" THEN Some(Err("Io")) ELSE None
    /\ zip_i' = zip_i + 1
    /\ UNCHANGED <<zip_len, jobvars, selvars, restvars, urlvars, busvars>>

\* The loop is over: Ok(()).
unzip_return ==
    /\ unzip_ret = None
    /\ zip_i = zip_len
    /\ unzip_ret' = Some(Ok("()"))
    /\ UNCHANGED <<zip_len, zip_i, zip_entry, extracted, jobvars, selvars, restvars, urlvars,
                   busvars>>

\* ---------------------------------------------------------------- bus
\* ConnectionManager: one tokio broadcast channel and, per WebSocket
\* connection, the process_outgoing task with its own Receiver.
MaxSubscribers == 2
MaxPublish == 130
\* The runs explored: at most MaxSlow connections at a time are PromptWindow
\* or more events behind when an event is published.
MaxSlow == 1
PromptWindow == 1
Subscribers == 1..MaxSubscribers

\* broadcast::channel(100): the channel rounds the requested capacity up to
\* the next power of two and indexes its slots with `pos & mask`.
RequestedCapacity == 100
RECURSIVE next_power_of_two_from(_, _)
next_power_of_two_from(p, n) == IF p >= n THEN p ELSE next_power_of_two_from(2 * p, n)
next_power_of_two(n) == next_power_of_two_from(1, n)
Capacity == next_power_of_two(RequestedCapacity)

\* The event sent at position p: the stream of a job's output chunks.
IoTypes == <<"Stdout", "Stderr">>
TaskIoChunk(p) == [id |-> "0", chunk |-> to_string(p), io_type |-> IoTypes[(p % 2) + 1]]

\* serde_json::to_string(&ServerMessage::TaskIoChunk(..)).
to_json(m) ==
    "{\"server_message\":\"TaskIoChunk\",\"content\":{\"id\":\"" \o m.id
        \o "\",\"chunk\":\"" \o m.chunk \o "\",\"io_type\":\"" \o m.io_type \o "\"}}"

\* The slot with index i holds the value of the latest position sent that
\* maps to it; a slot never written has the position i - Capacity.
slot_pos(i) ==
    LET latest == (tail - 1) - (((tail - 1) - i) % Capacity) IN
    IF tail = 0 \/ latest < 0 THEN i - Capacity ELSE latest

rx_cnt == Cardinality({s \in Subscribers : conn[s] = "open"})

NoBusRet == [op |-> "-", sub |-> 0, res |-> None, frame |-> "-"]

BusIdle ==
    /\ tail = 0
    /\ next = [s \in Subscribers |-> 0]
    /\ conn = [s \in Subscribers |-> "none"]
    /\ bret = NoBusRet

\* ConnectionManager::broadcast: `let _ = self.broadcast_sender.send(msg)`.
\* Sender::send returns Err without storing the value when there is no
\* Receiver, and otherwise overwrites the slot at tail and returns Ok.
broadcast ==
    /\ tail < MaxPublish
    /\ IF rx_cnt = 0
         THEN /\ bret' = [NoBusRet EXCEPT !.op = "broadcast", !.res = Err("SendError")]
              /\ UNCHANGED tail
         ELSE /\ bret' = [NoBusRet EXCEPT !.op = "broadcast", !.res = Ok(rx_cnt)]
              /\ tail' = tail + 1
    /\ UNCHANGED <<next, conn, jobvars, selvars, restvars, urlvars, zipvars>>

\* accept_connection: self.broadcast_sender.subscribe() and the two tasks.
\* Connection slots are taken in order.
accept_connection(s) ==
    /\ conn[s] = "none"
    /\ IF s = 1 THEN TRUE ELSE conn[s - 1] # "none"
    /\ conn' = [conn EXCEPT ![s] = "open"]
    /\ next' = [next EXCEPT ![s] = tail]
    /\ bret' = [NoBusRet EXCEPT !.op = "subscribe", !.sub = s]
    /\ UNCHANGED <<tail, jobvars, selvars, restvars, urlvars, zipvars>>

\* Receiver::recv is ready: a value or a lag is there to report.
recv_ready(s) == next[s] # tail

\* Variant of recv that returns a value without moving on to the next one.
recv_NoAdvance(s) ==
    IF slot_pos(next[s] % Capacity) = next[s]
      THEN [res |-> Ok(next[s]), next |-> next[s]]
      ELSE [res |-> Err(<<"Lagged", (tail - Capacity) - next[s]>>),
            next |-> tail - Capacity]

\* Receiver::recv: the slot of `next` holds that position, or the Receiver
\* has lagged and moves to the oldest position still held.
recv(s) ==
    IF slot_pos(next[s] % Capacity) = next[s]
      THEN [res |-> Ok(next[s]), next |-> next[s] + 1]
      ELSE [res |-> Err(<<"Lagged", (tail - Capacity) - next[s]>>),
            next |-> tail - Capacity]

\* Variant of outgoing_break in which the failure closes the whole channel:
\* every connection's Receiver is dropped.
outgoing_break_ClosesAll(s) ==
    /\ conn' = [t \in Subscribers |-> IF conn[t] = "none" THEN "none" ELSE "closed"]
    /\ next' = [t \in Subscribers |-> 0]

\* process_outgoing leaves its loop: the task ends and drops its Receiver.
outgoing_break(s) ==
    /\ conn' = [conn EXCEPT ![s] = "closed"]
    /\ next' = [next EXCEPT ![s] = 0]

\* Variant of outgoing_recv that leaves the loop on a lag.
outgoing_recv_BreaksOnLag(s, sent) ==
    /\ conn[s] = "open"
    /\ recv_ready(s)
    /\ LET r == recv(s) IN
       IF r.res[1] = "Ok"
         THEN /\ bret' = [NoBusRet EXCEPT !.op = "recv", !.sub = s, !.res = r.res,
                                          !.frame = to_json(TaskIoChunk(r.res[2]))]
              /\ IF sent THEN /\ next' = [next EXCEPT ![s] = r.next]
                              /\ UNCHANGED conn
                         ELSE outgoing_break(s)
         ELSE /\ bret' = [NoBusRet EXCEPT !.op = "recv", !.sub = s, !.res = r.res]
              /\ outgoing_break(s)
    /\ UNCHANGED <<tail, jobvars, selvars, restvars, urlvars, zipvars>>

\* process_outgoing, the broadcast branch of its select!: on Ok the event is
\* serialised and written to the socket (a failed write leaves the loop); on
\* Err the branch yields None and the loop goes on.
outgoing_recv(s, sent) ==
    /\ conn[s] = "open"
    /\ recv_ready(s)
    /\ LET r == recv(s) IN
       IF r.res[1] = "Ok"
         THEN /\ bret' = [NoBusRet EXCEPT !.op = "recv", !.sub = s, !.res = r.res,
                                          !.frame = to_json(TaskIoChunk(r.res[2]))]
              /\ IF sent THEN /\ next' = [next EXCEPT ![s] = r.next]
                              /\ UNCHANGED conn
                         ELSE outgoing_break(s)
         ELSE /\ sent
              /\ bret' = [NoBusRet EXCEPT !.op = "recv", !.sub = s, !.res = r.res]
              /\ next' = [next EXCEPT ![s] = r.next]
              /\ UNCHANGED conn
    /\ UNCHANGED <<tail, jobvars, selvars, restvars, urlvars, zipvars>>

\* process_outgoing, the internal branch of its select!: process_incoming
\* sent Close (the client is gone), and the loop is left.
outgoing_close(s) ==
    /\ conn[s] = "open"
    /\ outgoing_break(s)
    /\ bret' = [NoBusRet EXCEPT !.op = "close", !.sub = s]
    /\ UNCHANGED <<tail, jobvars, selvars, restvars, urlvars, zipvars>>

\* trace_stdout / trace_stderr: one line of the child's output is read from
\* the duplex pipe and logged with tracing::trace!.
trace_line(io_type) ==
    /\ bret' = [NoBusRet EXCEPT !.op = "trace", !.res = Some(io_type)]
    /\ UNCHANGED <<tail, next, conn, jobvars, selvars, restvars, urlvars, zipvars>>

\* ---------------------------------------------------------------- select
\* No select! is looked at.
NoSel == [timeout |-> 600, elapsed |-> FALSE, exited |-> FALSE, signal |-> FALSE,
          start |-> None, pc |-> "-", status |-> NoStatus]
SelIdle == sel = NoSel

\* ---------------------------------------------------------------- connection
\* One WebSocket connection: accept_connection and its two spawned tasks.
MaxFrames == 3
MaxTexts == 1

Texts == {"", "{}"}
Frames == {<<"Text", x>> : x \in Texts}
              \cup {<<"Binary">>, <<"Ping">>, <<"Pong">>, <<"Close">>}

\* serde_json::from_str::<ClientMessage>: ClientMessage has no variant, so
\* no text deserializes.
from_str(text) == Err("Error")

\* No connection is looked at.
WsIdle ==
    /\ recv_task = "none"
    /\ send_task = "none"
    /\ internal = <<>>
    /\ accept = "none"
    /\ ws_in = <<>>
    /\ ws_out = <<>>
    /\ client_messages = 0

\* Variant of process_incoming_next that leaves the loop on a close frame.
process_incoming_next_CloseEnds(frame) ==
    /\ recv_task = "next"
    /\ Len(ws_in) < MaxFrames
    /\ ws_in' = Append(ws_in, frame)
    /\ recv_task' = (IF frame[1] = "Ping" THEN "pong"
                     ELSE IF frame[1] = "Close" THEN "close" ELSE "next")
    /\ UNCHANGED <<send_task, internal, accept, ws_out, client_messages>>
    /\ UNCHANGED <<jobvars, urlvars, zipvars, busvars, selvars, ctrvars, dlvars>>

\* process_incoming: ws_receiver.next() yields Some(Ok(frame)).
process_incoming_next(frame) ==
    /\ recv_task = "next"
    /\ Len(ws_in) < MaxFrames
    /\ ws_in' = Append(ws_in, frame)
    /\ IF frame[1] = "Ping"
         THEN /\ recv_task' = "pong"
              /\ UNCHANGED client_messages
         ELSE IF frame[1] = "Text" /\ from_str(frame[2])[1] = "Ok"
           THEN /\ recv_task' = "next"
                /\ client_messages' = client_messages + 1
           ELSE /\ recv_task' = "next"
                /\ UNCHANGED client_messages
    /\ UNCHANGED <<send_task, internal, accept, ws_out>>
    /\ UNCHANGED <<jobvars, urlvars, zipvars, busvars, selvars, ctrvars, dlvars>>

\* process_incoming: ws_receiver.next() yields None or Some(Err(_)); the
\* while let ends.
process_incoming_end ==
    /\ recv_task = "next"
    /\ recv_task' = "close"
    /\ UNCHANGED <<send_task, internal, accept, ws_in, ws_out, client_messages>>
    /\ UNCHANGED <<jobvars, urlvars, zipvars, busvars, selvars, ctrvars, dlvars>>

\* process_incoming: internal_sender.send(..).await of the pong or of Close.
\* It is Err once the receiver is dropped, and waits while the buffer is full.
process_incoming_send ==
    /\ recv_task \in {"pong", "close"}
    /\ IF send_task = "done"
         THEN UNCHANGED internal
         ELSE /\ Len(internal) < 1
              /\ internal' = Append(internal,
                                    IF recv_task = "pong" THEN "Send(Pong)" ELSE "Close")
    /\ recv_task' = IF recv_task = "pong" THEN "next" ELSE "done"
    /\ UNCHANGED <<send_task, accept, ws_in, ws_out, client_messages>>
    /\ UNCHANGED <<jobvars, urlvars, zipvars, busvars, selvars, ctrvars, dlvars>>

\* process_outgoing leaves its loop: its receivers and the sink are dropped.
process_outgoing_break ==
    /\ send_task' = "done"
    /\ internal' = <<>>

\* process_outgoing: the select! takes internal_receiver.recv().
process_outgoing_internal(ok) ==
    /\ send_task = "select"
    /\ internal # <<>>
    /\ IF Head(internal) = "Close"
         THEN /\ process_outgoing_break
              /\ UNCHANGED ws_out
         ELSE IF ok
           THEN /\ ws_out' = Append(ws_out, "Pong")
                /\ internal' = Tail(internal)
                /\ UNCHANGED send_task
           ELSE /\ process_outgoing_break
                /\ UNCHANGED ws_out
    /\ UNCHANGED <<recv_task, accept, ws_in, client_messages>>
    /\ UNCHANGED <<jobvars, urlvars, zipvars, busvars, selvars, ctrvars, dlvars>>

\* process_outgoing: the select! takes broadcast_receiver.recv() with a value.
process_outgoing_broadcast(ok) ==
    /\ send_task = "select"
    /\ Cardinality({i \in 1..Len(ws_out) : ws_out[i] = "Text"}) < MaxTexts
    /\ IF ok
         THEN /\ ws_out' = Append(ws_out, "Text")
              /\ UNCHANGED <<send_task, internal>>
         ELSE /\ process_outgoing_break
              /\ UNCHANGED ws_out
    /\ UNCHANGED <<recv_task, accept, ws_in, client_messages>>
    /\ UNCHANGED <<jobvars, urlvars, zipvars, busvars, selvars, ctrvars, dlvars>>

\* Variant of accept_select that returns as soon as one of the two tasks ends.
accept_select_NoJoin(arm) ==
    /\ accept = "select"
    /\ IF arm = "send_task" THEN send_task = "done" ELSE recv_task = "done"
    /\ accept' = "returned"
    /\ UNCHANGED <<recv_task, send_task, internal, ws_in, ws_out, client_messages>>
    /\ UNCHANGED <<jobvars, urlvars, zipvars, busvars, selvars, ctrvars, dlvars>>

\* accept_connection: the select! over the two JoinHandles.
accept_select(arm) ==
    /\ accept = "select"
    /\ IF arm = "send_task" THEN send_task = "done" ELSE recv_task = "done"
    /\ accept' = IF arm = "send_task" THEN "recv_task.await" ELSE "send_task.await"
    /\ UNCHANGED <<recv_task, send_task, internal, ws_in, ws_out, client_messages>>
    /\ UNCHANGED <<jobvars, urlvars, zipvars, busvars, selvars, ctrvars, dlvars>>

\* accept_connection: the await on the other JoinHandle, then the return.
accept_join ==
    /\ IF accept = "recv_task.await" THEN recv_task = "done"
       ELSE accept = "send_task.await" /\ send_task = "done"
    /\ accept' = "returned"
    /\ UNCHANGED <<recv_task, send_task, internal, ws_in, ws_out, client_messages>>
    /\ UNCHANGED <<jobvars, urlvars, zipvars, busvars, selvars, ctrvars, dlvars>>

\* ---------------------------------------------------------------- counter
\* The AtomicU32 alone, at its full width. A u32 is kept as <<high, low>>,
\* two 16-bit halves.
HalfWord == 65536
MaxCalls == 3
U32Max == <<HalfWord - 1, HalfWord - 1>>
U32Zero == <<0, 0>>

\* u32 addition of 1 modulo 2^32.
wrapping_add_1(x) ==
    IF x[2] + 1 < HalfWord THEN <<x[1], x[2] + 1>>
    ELSE IF x[1] + 1 < HalfWord THEN <<x[1] + 1, 0>>
    ELSE U32Zero

\* `id + 1` on a u32: with overflow checks (the dev profile) the overflow
\* panics, without them (the release profile) it wraps.
add_1(x, checks) ==
    IF x = U32Max /\ checks THEN "panic" ELSE wrapping_add_1(x)

NoCall == <<"-">>

\* No counter is looked at.
CtrIdle ==
    /\ ctr = U32Zero
    /\ ctr_id = None
    /\ ctr_ret = NoCall
    /\ overflow_checks = FALSE
    /\ calls = 0

\* increment_current_task_id: `let id = self.current_id.load(Relaxed)`.
increment_load ==
    /\ ctr_id = None
    /\ calls < MaxCalls
    /\ calls' = calls + 1
    /\ ctr_id' = Some(ctr)
    /\ ctr_ret' = NoCall
    /\ UNCHANGED <<ctr, overflow_checks>>
    /\ UNCHANGED <<jobvars, urlvars, zipvars, busvars, selvars, wsvars, dlvars>>

\* increment_current_task_id: `self.current_id.store(id + 1, Relaxed); id`.
\* A panic unwinds the request's task before the store.
increment_store ==
    /\ ctr_id # None
    /\ LET sum == add_1(ctr_id[2], overflow_checks) IN
       IF sum = "panic"
         THEN /\ ctr_ret' = <<"panic">>
              /\ UNCHANGED ctr
         ELSE /\ ctr_ret' = <<"id", ctr_id[2]>>
              /\ ctr' = sum
    /\ ctr_id' = None
    /\ UNCHANGED <<overflow_checks, calls>>
    /\ UNCHANGED <<jobvars, urlvars, zipvars, busvars, selvars, wsvars, dlvars>>

\* No download pipeline is looked at.
DlIdle ==
    /\ dl_pc = "none"
    /\ dl_status = NoStatus
    /\ spawned = FALSE

RestIdle == WsIdle /\ CtrIdle /\ DlIdle

\* ---------------------------------------------------------------- init
JobsIdle ==
    /\ current_id = 0
    /\ tasks = <<>>
    /\ pc = [j \in Jobs |-> "idle"]
    /\ kind = [j \in Jobs |-> "-"]
    /\ chat = [j \in Jobs |-> "-"]
    /\ local_id = [j \in Jobs |-> 0]
    /\ status = [j \in Jobs |-> NoStatus]
    /\ hist = [j \in Jobs |-> <<>>]
    /\ chan = [j \in Jobs |-> 0]
    /\ cpc = [c \in Callers |-> "idle"]
    /\ creq = [c \in Callers |-> NoReq]
    /\ ret = NoRet
    /\ wguard = 0

Init ==
    /\ JobsIdle
    /\ UrlIdle
    /\ ZipIdle
    /\ BusIdle
    /\ SelIdle
    /\ RestIdle

\* ---------------------------------------------------------------- submission
\* Job slots are taken in order (slot j+1 is used only after slot j), and a
\* submission uses a chat id already in use or the first unused one.
SlotFree(j) == pc[j] = "idle" /\ (IF j = 1 THEN TRUE ELSE pc[j - 1] # "idle")
UsedChats == {chat[j] : j \in Jobs} \ {"-"}
ChatChoices ==
    {ChatSeq[i] : i \in {n \in 1..Len(ChatSeq) : n <= Cardinality(UsedChats) + 1}}

\* The error of a submission that fails before it allocates an id.
SubmitError(k) == IF k = "Converter" THEN "NotFound" ELSE "io::Error"

\* Variant of SubmitRejected that allocates the id before the failing check.
SubmitRejected_ConsumesId(k, c) ==
    /\ \E j \in Jobs : SlotFree(j)
    /\ ret' = [NoRet EXCEPT !.op = k, !.chat_id = c, !.res = Err(SubmitError(k))]
    /\ current_id' = current_id + 1
    /\ UNCHANGED <<tasks, pc, kind, chat, local_id, status, hist, chan, cpc, creq>>
    /\ UNCHANGED <<wguard, side>>

\* run_download_task: create_dir_all fails (`?`);
\* run_gs_log_to_locust_converter_task: the project directory does not exist.
\* The call returns Err before it touches current_id or tasks.
SubmitRejected(k, c) ==
    /\ \E j \in Jobs : SlotFree(j)
    /\ ret' = [NoRet EXCEPT !.op = k, !.chat_id = c, !.res = Err(SubmitError(k))]
    /\ UNCHANGED <<current_id, tasks, pc, kind, chat, local_id, status, hist,
                   chan, cpc, creq>>
    /\ UNCHANGED <<wguard, side>>

\* increment_current_task_id, first half: `let id = self.current_id.load(Relaxed)`.
IncrementLoad(j, k, c) ==
    /\ SlotFree(j)
    /\ c \in ChatChoices
    /\ pc' = [pc EXCEPT ![j] = "loaded"]
    /\ kind' = [kind EXCEPT ![j] = k]
    /\ chat' = [chat EXCEPT ![j] = c]
    /\ local_id' = [local_id EXCEPT ![j] = current_id]
    /\ ret' = NoRet
    /\ UNCHANGED <<current_id, tasks, status, hist, chan, cpc, creq>>
    /\ UNCHANGED <<wguard, side>>

\* Task::new: channel(1) and Data { id, status: Process(Created) }.
TaskNewStatus == ProcessStatus("Created", "-")

\* increment_current_task_id, second half: `self.current_id.store(id + 1, Relaxed)`,
\* then Task::new(id.to_string()) and the call of tasks.write().
IncrementStore(j) ==
    /\ pc[j] = "loaded"
    /\ current_id' = local_id[j] + 1
    /\ status' = [status EXCEPT ![j] = TaskNewStatus]
    /\ hist' = [hist EXCEPT ![j] = <<TaskNewStatus>>]
    /\ chan' = [chan EXCEPT ![j] = 0]
    /\ pc' = [pc EXCEPT ![j] = "wlock"]
    /\ UNCHANGED <<tasks, kind, chat, local_id, cpc, creq>>
    /\ ret' = NoRet
    /\ UNCHANGED <<wguard, side>>

JobId(j) == to_string(local_id[j])

\* The write guard is granted: tasks.insert(id, task_data) and tokio::spawn(..).
\* HashMap::insert replaces (and drops) a record already stored under the key.
\* The guard `tasks` lives to the end of the function: the spawned task can be
\* polled by another worker thread before the submission returns.
Insert(j) ==
    /\ pc[j] = "wlock"
    /\ Readers = {}
    /\ ~WriteHeld
    /\ tasks' = HashMapInsert(tasks, JobId(j), TaskData(chat[j], j))
    /\ pc' = [pc EXCEPT ![j] = "start"]
    /\ wguard' = j
    /\ UNCHANGED <<current_id, kind, chat, local_id, status, hist, chan, cpc,
                   creq>>
    /\ ret' = NoRet
    /\ UNCHANGED side

\* The submission returns Ok(id) and drops the write guard; the route answers
\* 201 CREATED with the id.
SubmitReturn(j) ==
    /\ wguard = j
    /\ wguard' = 0
    /\ ret' = [NoRet EXCEPT !.op = kind[j], !.id = JobId(j), !.chat_id = chat[j],
                            !.res = Ok(JobId(j)),
                            !.http = [code |-> 201, body |-> JobId(j)]]
    /\ UNCHANGED <<current_id, tasks, pc, kind, chat, local_id, status, hist,
                   chan, cpc, creq>>
    /\ UNCHANGED side

\* ---------------------------------------------------------------- runner
\* Task::set_status_and_log: the only place Data.status is written.
set_status(j, s) ==
    /\ status' = [status EXCEPT ![j] = s]
    /\ hist' = [hist EXCEPT ![j] = Append(@, s)]

\* run_* has returned: the Task is dropped, and with it the Receiver and
\* whatever it still buffers; the supervisor starts its 900 s sleep.
RunReturns(j) ==
    /\ pc' = [pc EXCEPT ![j] = "sleep"]
    /\ chan' = [chan EXCEPT ![j] = 0]

\* Variant of CancelSignalReady for a runner that only notices a dropped Handle.
CancelSignalReady_OnlyDrop(j) == ~HandleAlive(j)

\* Variant of CancelSignalReady for a runner that never notices a dropped Handle.
CancelSignalReady_IgnoresDrop(j) == chan[j] > 0

\* Task::wait_for_cancel_signal is ready: rx.recv() yields Some(()) when a
\* message is buffered and None when the buffer is empty and the Handle is gone.
CancelSignalReady(j) == chan[j] > 0 \/ ~HandleAlive(j)

\* Variant of Spawn whose Err arm lacks the `return` and falls into the race.
Spawn_NoReturnOnFailure(j, ok) ==
    /\ pc[j] = "start"
    /\ kind[j] = "Converter"
    /\ set_status(j, IF ok THEN ProcessStatus("Running", "-")
                          ELSE ProcessStatus("Failed", "OnSpawn"))
    /\ pc' = [pc EXCEPT ![j] = "race"]
    /\ ret' = NoRet
    /\ UNCHANGED <<current_id, tasks, kind, chat, local_id, chan, cpc, creq>>
    /\ UNCHANGED <<wguard, side>>

\* Variant of Spawn whose Err arm goes on to kill the child.
Spawn_KillsOnFailure(j, ok) ==
    /\ pc[j] = "start"
    /\ kind[j] = "Converter"
    /\ set_status(j, IF ok THEN ProcessStatus("Running", "-")
                          ELSE ProcessStatus("Failed", "OnSpawn"))
    /\ pc' = [pc EXCEPT ![j] = IF ok THEN "race" ELSE "c_kill"]
    /\ ret' = NoRet
    /\ UNCHANGED <<current_id, tasks, kind, chat, local_id, chan, cpc, creq>>
    /\ UNCHANGED <<wguard, side>>

\* run_os_process up to the select!: Command::spawn, then either
\* Failed{OnSpawn} and return, or the copiers and status Running.
Spawn(j, ok) ==
    /\ pc[j] = "start"
    /\ kind[j] = "Converter"
    /\ IF ok
         THEN /\ set_status(j, ProcessStatus("Running", "-"))
              /\ pc' = [pc EXCEPT ![j] = "race"]
              /\ UNCHANGED chan
         ELSE /\ set_status(j, ProcessStatus("Failed", "OnSpawn"))
              /\ RunReturns(j)
    /\ UNCHANGED <<current_id, tasks, kind, chat, local_id, cpc, creq>>
    /\ ret' = NoRet
    /\ UNCHANGED <<wguard, side>>

\* Variant of ProcessTimeout for a select! without the sleep(timeout) branch.
ProcessTimeout_NotRaced(j) ==
    /\ pc[j] = "race"
    /\ kind[j] = "Converter"
    /\ FALSE
    /\ UNCHANGED vars

\* select! branch 1 of run_os_process: tokio::time::sleep(timeout) completed.
ProcessTimeout(j) ==
    /\ pc[j] = "race"
    /\ kind[j] = "Converter"
    /\ pc' = [pc EXCEPT ![j] = "t_kill"]
    /\ UNCHANGED <<current_id, tasks, kind, chat, local_id, status, hist, chan,
                   cpc, creq>>
    /\ ret' = NoRet
    /\ UNCHANGED <<wguard, side>>

\* select! branch 2 of run_os_process: wait_for_cancel_signal completed.
ProcessCancel(j) ==
    /\ pc[j] = "race"
    /\ kind[j] = "Converter"
    /\ CancelSignalReady(j)
    /\ chan' = [chan EXCEPT ![j] = 0]
    /\ pc' = [pc EXCEPT ![j] = "c_kill"]
    /\ UNCHANGED <<current_id, tasks, kind, chat, local_id, status, hist,
                   cpc, creq>>
    /\ ret' = NoRet
    /\ UNCHANGED <<wguard, side>>

\* The status a natural exit maps to (From<ExitStatus>, or Failed{OnWait}).
ExitStatusOf(r) ==
    CASE r = "Success" -> ProcessStatus("Exited", "Success")
      [] r = "Failure" -> ProcessStatus("Exited", "Failure")
      [] r = "WaitErr" -> ProcessStatus("Failed", "OnWait")

\* select! branch 3 of run_os_process: child.wait() completed; terminal write.
ProcessExit(j, r) ==
    /\ pc[j] = "race"
    /\ kind[j] = "Converter"
    /\ set_status(j, ExitStatusOf(r))
    /\ RunReturns(j)
    /\ UNCHANGED <<current_id, tasks, kind, chat, local_id, cpc, creq>>
    /\ ret' = NoRet
    /\ UNCHANGED <<wguard, side>>

\* Variant of KillFailedStatus that blames the cancel branch in both branches.
KillFailedStatus_AlwaysAfterCancel(p) == ProcessStatus("Failed", "AfterCancelOnKill")

\* The status of a failed kill in the timeout / cancel branch.
KillFailedStatus(p) ==
    IF p = "t_kill" THEN ProcessStatus("Failed", "AfterTimeoutOnKill")
                    ELSE ProcessStatus("Failed", "AfterCancelOnKill")

\* child.kill().await in the timeout or the cancel branch.
Kill(j, ok) ==
    /\ pc[j] \in {"t_kill", "c_kill"}
    /\ IF ok
         THEN /\ pc' = [pc EXCEPT ![j] = IF pc[j] = "t_kill" THEN "t_wait" ELSE "c_wait"]
              /\ UNCHANGED <<status, hist, chan>>
         ELSE /\ set_status(j, KillFailedStatus(pc[j]))
              /\ RunReturns(j)
    /\ UNCHANGED <<current_id, tasks, kind, chat, local_id, cpc, creq>>
    /\ ret' = NoRet
    /\ UNCHANGED <<wguard, side>>

\* Variant of WaitStatus whose cancel branch yields Timeout after a good wait.
WaitStatus_CancelAsTimeout(p, ok) ==
    CASE ok -> ProcessStatus("Timeout", "-")
      [] p = "t_wait" /\ ~ok -> ProcessStatus("Failed", "AfterTimeoutOnWait")
      [] p = "c_wait" /\ ~ok -> ProcessStatus("Failed", "AfterCancelOnWait")

\* The status after child.wait() in the timeout / cancel branch.
WaitStatus(p, ok) ==
    CASE p = "t_wait" /\ ok -> ProcessStatus("Timeout", "-")
      [] p = "t_wait" /\ ~ok -> ProcessStatus("Failed", "AfterTimeoutOnWait")
      [] p = "c_wait" /\ ok -> ProcessStatus("Canceled", "-")
      [] p = "c_wait" /\ ~ok -> ProcessStatus("Failed", "AfterCancelOnWait")

\* child.wait().await after a successful kill; terminal write.
Wait(j, ok) ==
    /\ pc[j] \in {"t_wait", "c_wait"}
    /\ set_status(j, WaitStatus(pc[j], ok))
    /\ RunReturns(j)
    /\ UNCHANGED <<current_id, tasks, kind, chat, local_id, cpc, creq>>
    /\ ret' = NoRet
    /\ UNCHANGED <<wguard, side>>

\* Variant of DownloadStart for a task spawned before tasks.write().await.
DownloadStart_BeforeInsert(j) ==
    /\ pc[j] \in {"wlock", "start"}
    /\ kind[j] = "Download"
    /\ set_status(j, DownloadZipFileStatus("Running", "-"))
    /\ pc' = [pc EXCEPT ![j] = "race"]
    /\ UNCHANGED <<current_id, tasks, kind, chat, local_id, chan, cpc, creq>>
    /\ ret' = NoRet
    /\ UNCHANGED <<wguard, side>>

\* Variant of DownloadStart that looks at the cancel channel before it writes
\* Running.
DownloadStart_ChecksCancelFirst(j) ==
    /\ pc[j] = "start"
    /\ kind[j] = "Download"
    /\ IF CancelSignalReady(j)
         THEN /\ set_status(j, DownloadZipFileStatus("Canceled", "-"))
              /\ RunReturns(j)
         ELSE /\ set_status(j, DownloadZipFileStatus("Running", "-"))
              /\ pc' = [pc EXCEPT ![j] = "race"]
              /\ UNCHANGED chan
    /\ UNCHANGED <<current_id, tasks, kind, chat, local_id, cpc, creq>>
    /\ ret' = NoRet
    /\ UNCHANGED <<wguard, side>>

\* run_download_and_unzip_from_download_url up to the select!: status Running.
DownloadStart(j) ==
    /\ pc[j] = "start"
    /\ kind[j] = "Download"
    /\ set_status(j, DownloadZipFileStatus("Running", "-"))
    /\ pc' = [pc EXCEPT ![j] = "race"]
    /\ UNCHANGED <<current_id, tasks, kind, chat, local_id, chan, cpc, creq>>
    /\ ret' = NoRet
    /\ UNCHANGED <<wguard, side>>

\* The status each branch of the download select! yields.
DownloadBranchStatus(b) ==
    CASE b = "timeout" -> DownloadZipFileStatus("Timeout", "-")
      [] b = "cancel" -> DownloadZipFileStatus("Canceled", "-")
      [] b = "ok" -> DownloadZipFileStatus("Exited", "-")
      [] b = "err" -> DownloadZipFileStatus("Failed", "reason")

\* The third branch of the download select!: the match on the pipeline's
\* Result, Ok(_) or Err(err).
download_result_status(result) ==
    DownloadBranchStatus(IF result[1] = "Ok" THEN "ok" ELSE "err")

\* One branch of the download select! completes; terminal write.
DownloadFinish(j, b) ==
    /\ pc[j] = "race"
    /\ kind[j] = "Download"
    /\ (b = "cancel") => CancelSignalReady(j)
    /\ set_status(j, DownloadBranchStatus(b))
    /\ RunReturns(j)
    /\ UNCHANGED <<current_id, tasks, kind, chat, local_id, cpc, creq>>
    /\ ret' = NoRet
    /\ UNCHANGED <<wguard, side>>

\* ---------------------------------------------------------------- the race
\* One run of the select! of run_os_process, branch by branch.  The inputs are
\* the timeout argument and what is true when the select! is first polled:
\* whether the child has exited already and whether a cancel signal is
\* buffered (or the Handle dropped).  A sleep of Duration::ZERO has elapsed at
\* its first poll.
Timeouts == {0, 600}
Branches == <<"timeout", "cancel", "exit">>
BRANCHES == Len(Branches)

\* The branch future is ready when polled.
BranchReady(b) ==
    CASE b = "timeout" -> sel.elapsed
      [] b = "cancel" -> sel.signal
      [] b = "exit" -> sel.exited

\* tokio::select! without `biased;`: the branches are polled in the order
\* start, start + 1, .. (mod BRANCHES) from a random start, and the first one
\* that is ready is taken; None when all are pending.
select_branch(start) ==
    LET ready == {i \in 0..(BRANCHES - 1) :
                     BranchReady(Branches[((start + i) % BRANCHES) + 1])} IN
    IF ready = {} THEN None
    ELSE Some(Branches[((start + (CHOOSE i \in ready : \A k \in ready : i <= k))
                          % BRANCHES) + 1])

\* While the select! is pending: the timer fires, the child exits, a cancel
\* signal arrives.
sleep_elapses ==
    /\ sel.pc = "race"
    /\ ~sel.elapsed
    /\ sel' = [sel EXCEPT !.elapsed = TRUE]
    /\ UNCHANGED <<jobvars, urlvars, zipvars, busvars, restvars>>

child_exits ==
    /\ sel.pc = "race"
    /\ ~sel.exited
    /\ sel' = [sel EXCEPT !.exited = TRUE]
    /\ UNCHANGED <<jobvars, urlvars, zipvars, busvars, restvars>>

cancel_arrives ==
    /\ sel.pc = "race"
    /\ ~sel.signal
    /\ sel' = [sel EXCEPT !.signal = TRUE]
    /\ UNCHANGED <<jobvars, urlvars, zipvars, busvars, restvars>>

\* A poll of the select! that finds a branch ready: the branch is entered; the
\* natural-exit branch yields its status at once (r: what child.wait() gave).
select_poll(start, r) ==
    /\ sel.pc = "race"
    /\ select_branch(start) # None
    /\ LET b == select_branch(start)[2] IN
       sel' = [sel EXCEPT !.start = Some(start),
                          !.pc = CASE b = "timeout" -> "t_kill"
                                   [] b = "cancel" -> "c_kill"
                                   [] b = "exit" -> "end",
                          !.status = IF b = "exit" THEN ExitStatusOf(r) ELSE @]
    /\ UNCHANGED <<jobvars, urlvars, zipvars, busvars, restvars>>

\* child.kill().await and child.wait().await in the timeout / cancel branch.
select_kill(ok) ==
    /\ sel.pc \in {"t_kill", "c_kill"}
    /\ sel' = IF ok
               THEN [sel EXCEPT !.pc = IF sel.pc = "t_kill" THEN "t_wait" ELSE "c_wait"]
               ELSE [sel EXCEPT !.pc = "end", !.status = KillFailedStatus(sel.pc)]
    /\ UNCHANGED <<jobvars, urlvars, zipvars, busvars, restvars>>

select_wait(ok) ==
    /\ sel.pc \in {"t_wait", "c_wait"}
    /\ sel' = [sel EXCEPT !.pc = "end", !.status = WaitStatus(sel.pc, ok)]
    /\ UNCHANGED <<jobvars, urlvars, zipvars, busvars, restvars>>

\* ---------------------------------------------------------------- pipeline
\* One download job's select! together with the blocking thread that
\* spawn_blocking starts for Task::unzip.
\* download_and_unzip_from_download_url up to spawn_blocking: reqwest::get,
\* bytes() and ZipArchive::new, each with `?`.
pipeline_download(ok) ==
    /\ dl_pc = "download"
    /\ IF ok
         THEN /\ dl_pc' = "unzip"
              /\ spawned' = TRUE
              /\ UNCHANGED dl_status
         ELSE /\ dl_pc' = "returned"
              /\ dl_status' = download_result_status(Err("Reqwest"))
              /\ UNCHANGED spawned
    /\ UNCHANGED <<jobvars, urlvars, zipvars, busvars, selvars, wsvars, ctrvars>>

\* The blocking thread runs one pass of Task::unzip's loop. It runs whether
\* or not the future that awaits its JoinHandle still exists.
blocking_unzip_entry(name, io) ==
    /\ spawned
    /\ unzip_entry(name, io)

\* The blocking thread returns from Task::unzip.
blocking_unzip_return ==
    /\ spawned
    /\ unzip_return

\* The third branch of the select!: the JoinHandle resolves with the result
\* of Task::unzip and the runner stores the status of that result.
pipeline_join ==
    /\ dl_pc = "unzip"
    /\ unzip_ret # None
    /\ dl_pc' = "returned"
    /\ dl_status' = download_result_status(unzip_ret[2])
    /\ UNCHANGED spawned
    /\ UNCHANGED <<jobvars, urlvars, zipvars, busvars, selvars, wsvars, ctrvars>>

\* The sleep or the cancel branch of the select! wins: the pipeline future
\* is dropped and the runner stores Timeout or Canceled.
pipeline_dropped(b) ==
    /\ dl_pc \in {"download", "unzip"}
    /\ dl_pc' = "returned"
    /\ dl_status' = DownloadBranchStatus(b)
    /\ UNCHANGED spawned
    /\ UNCHANGED <<jobvars, urlvars, zipvars, busvars, selvars, wsvars, ctrvars>>

\* ---------------------------------------------------------------- supervisor
\* tokio::time::sleep(900 s) is over; the task calls tasks.write().
RetentionElapsed(j) ==
    /\ pc[j] = "sleep"
    /\ pc' = [pc EXCEPT ![j] = "evict"]
    /\ UNCHANGED <<current_id, tasks, kind, chat, local_id, status, hist, chan,
                   cpc, creq>>
    /\ ret' = NoRet
    /\ UNCHANGED <<wguard, side>>

\* The write guard is granted: tasks.remove(&task_id).  The removed record is
\* whatever the map holds under the key.  The job's own Handle is gone by now
\* (removed here, or replaced or removed earlier), so its Data is freed.
Evict(j) ==
    /\ pc[j] = "evict"
    /\ Readers = {}
    /\ ~WriteHeld
    /\ tasks' = HashMapRemove(tasks, JobId(j))
    /\ pc' = [pc EXCEPT ![j] = "done"]
    /\ status' = [status EXCEPT ![j] = NoStatus]
    /\ hist' = [hist EXCEPT ![j] = <<>>]
    /\ ret' = NoRet
    /\ UNCHANGED <<current_id, kind, chat, local_id, chan, cpc, creq>>
    /\ UNCHANGED <<wguard, side>>

\* ---------------------------------------------------------------- lookups
\* Variant of OwnedBy without the `if task_data.chat_id == chat_id` guard.
OwnedBy_IgnoresChatId(got, chat_id) == got # None

\* The match arm both lookups share:
\* `Some(task_data) if task_data.chat_id == chat_id`.
OwnedBy(got, chat_id) == got # None /\ got[2].chat_id = chat_id

\* ApiStateInner::task_status.
task_status(id, chat_id) ==
    LET got == HashMapGet(tasks, id) IN
    IF OwnedBy(got, chat_id) THEN Some(status[got[2].handle]) ELSE None

\* Variant of cancel_task that answers None for a job whose status is terminal.
cancel_task_RejectsFinished(id, chat_id) ==
    LET got == HashMapGet(tasks, id) IN
    IF OwnedBy(got, chat_id) /\ ~IsTerminal(status[got[2].handle])
      THEN Some(id) ELSE None

\* Variant of cancel_task that matches the record by its id alone.
cancel_task_MatchesIdOnly(id, chat_id) ==
    IF HashMapGet(tasks, id) # None THEN Some(id) ELSE None

\* ApiStateInner::cancel_task: Some(id) once send_cancel_signal is over.
cancel_task(id, chat_id) ==
    LET got == HashMapGet(tasks, id) IN
    IF OwnedBy(got, chat_id) THEN Some(id) ELSE None

\* routes::status::status and routes::cancel::cancel: `.ok_or(NotFound)?`,
\* 404 with the body NotFound, or 200 with the payload.
route_response(res) ==
    IF res = None THEN [code |-> 404, body |-> "NotFound"]
                  ELSE [code |-> 200, body |-> res[2]]

\* `waited`: the call returned after its send had been pending.
Returns(op, id, chat_id, res, w) ==
    ret' = [NoRet EXCEPT !.op = op, !.id = id, !.chat_id = chat_id, !.res = res,
                         !.waited = w, !.http = route_response(res)]

\* GET /api/status/{id}: the read guard is taken and released within the call.
StatusCall(id, chat_id) ==
    /\ ~WriterWaiting
    /\ ~WriteHeld
    /\ Returns("status", id, chat_id, task_status(id, chat_id), FALSE)
    /\ UNCHANGED <<current_id, tasks, pc, kind, chat, local_id, status, hist,
                   chan, cpc, creq>>
    /\ UNCHANGED <<wguard, side>>

\* Variant of SendReady for a channel whose buffer never has a free permit:
\* a send stays pending until the Receiver is gone.
SendReady_NoPermit(j) == ~RxAlive(j)

\* Handle::send_cancel_signal completes on job j's channel: Ok when a permit
\* of the capacity-1 buffer is free, Err when the Receiver is gone.
SendReady(j) == ~RxAlive(j) \/ chan[j] < 1
SendCompletes(j) ==
    /\ SendReady(j)
    /\ chan' = [chan EXCEPT ![j] = IF RxAlive(j) THEN 1 ELSE @]

\* Variant of CancelCall that writes Canceled into the record it matches.
CancelCall_WritesCanceled(c, id, chat_id) ==
    /\ cpc[c] = "idle"
    /\ ~WriterWaiting
    /\ ~WriteHeld
    /\ LET res == cancel_task(id, chat_id) IN
       /\ Returns("cancel", id, chat_id, res, FALSE)
       /\ IF res = None
            THEN UNCHANGED <<status, hist>>
            ELSE set_status(tasks[id].handle, ProcessStatus("Canceled", "-"))
    /\ UNCHANGED <<current_id, tasks, pc, kind, chat, local_id, chan, cpc, creq>>
    /\ UNCHANGED <<wguard, side>>

\* PUT /api/cancel/{id}: cancel_task under the read guard.  With the buffer
\* full and the Receiver alive, tx.send(()).await stays pending and the caller
\* keeps the read guard.
CancelCall(c, id, chat_id) ==
    /\ cpc[c] = "idle"
    /\ ~WriterWaiting
    /\ ~WriteHeld
    /\ LET res == cancel_task(id, chat_id) IN
       IF res = None
         THEN /\ Returns("cancel", id, chat_id, res, FALSE)
              /\ UNCHANGED <<chan, cpc, creq>>
         ELSE LET j == tasks[id].handle IN
              IF SendReady(j)
                THEN /\ SendCompletes(j)
                     /\ Returns("cancel", id, chat_id, res, FALSE)
                     /\ UNCHANGED <<cpc, creq>>
                ELSE /\ cpc' = [cpc EXCEPT ![c] = "send"]
                     /\ creq' = [creq EXCEPT ![c] = [id |-> id, chat_id |-> chat_id]]
                     /\ ret' = NoRet
                     /\ UNCHANGED chan
    /\ UNCHANGED <<current_id, tasks, pc, kind, chat, local_id, status, hist>>
    /\ UNCHANGED <<wguard, side>>

\* The pending send of caller c completes (the runner received the buffered
\* message, or dropped the Receiver); cancel_task returns Some(id).
CancelResume(c) ==
    /\ cpc[c] = "send"
    /\ LET j == tasks[creq[c].id].handle IN
       /\ SendCompletes(j)
       /\ Returns("cancel", creq[c].id, creq[c].chat_id, Some(creq[c].id), TRUE)
    /\ cpc' = [cpc EXCEPT ![c] = "idle"]
    /\ creq' = [creq EXCEPT ![c] = NoReq]
    /\ UNCHANGED <<current_id, tasks, pc, kind, chat, local_id, status, hist>>
    /\ UNCHANGED <<wguard, side>>

\* ---------------------------------------------------------------- middleware
\* The api_key header of a request: absent, or a header value.  HeaderValue::
\* to_str fails on a value that is not visible ASCII.
api_token == "secret"
NotVisibleAscii == "\\x80"
ApiKeys == {None, Some("secret"), Some("wrong"), Some(NotVisibleAscii)}

to_str(v) == IF v = NotVisibleAscii THEN Err("ToStrError") ELSE Ok(v)

\* ApiState::api_token_valid.
api_token_valid(key) == key = api_token

\* validate_bearer_token: Err(ApiError) or Ok of the handler's response.
validate_bearer_token(header) ==
    IF header = None THEN Err("Unauthorized")
    ELSE IF to_str(header[2])[1] = "Err" THEN Err("Unauthorized")
    ELSE IF ~api_token_valid(to_str(header[2])[2]) THEN Err("Unauthorized")
    ELSE Ok("next.run(request)")

\* impl From<ApiError> for ApiErrorResponse: the status code of each variant;
\* the match has no arm for the Unauthorized of validate_bearer_token (0).
status_code(err) ==
    CASE err = "ChatIdMissing" -> 400
      [] err = "ApiKeyMissing" -> 400
      [] err = "ApiKeyInvalid" -> 401
      [] err = "QueryInvalid" -> 400
      [] err = "NotFound" -> 404
      [] err = "InternalServerError" -> 500
      [] OTHER -> 0

\* A request to a route behind the middleware that validate_bearer_token turns
\* down: the ApiError is the response and the handler does not run.
RequestRejected(header) ==
    /\ validate_bearer_token(header)[1] = "Err"
    /\ LET err == validate_bearer_token(header)[2] IN
       ret' = [NoRet EXCEPT !.op = "middleware", !.api_key = header,
                            !.res = Err(err),
                            !.http = [code |-> status_code(err), body |-> err]]
    /\ UNCHANGED <<current_id, tasks, pc, kind, chat, local_id, status, hist,
                   chan, cpc, creq>>
    /\ UNCHANGED <<wguard, side>>

\* ---------------------------------------------------------------- next
Runner(j) ==
    \/ \E ok \in BOOLEAN : Spawn(j, ok)
    \/ ProcessTimeout(j)
    \/ ProcessCancel(j)
    \/ \E r \in {"Success", "Failure", "WaitErr"} : ProcessExit(j, r)
    \/ \E ok \in BOOLEAN : Kill(j, ok)
    \/ \E ok \in BOOLEAN : Wait(j, ok)
    \/ DownloadStart(j)
    \/ \E b \in {"timeout", "cancel", "ok", "err"} : DownloadFinish(j, b)

Next ==
    \/ \E k \in Kinds, c \in ChatIds : SubmitRejected(k, c)
    \/ \E j \in Jobs, k \in Kinds, c \in ChatIds : IncrementLoad(j, k, c)
    \/ \E j \in Jobs : IncrementStore(j)
    \/ \E j \in Jobs : Insert(j)
    \/ \E j \in Jobs : SubmitReturn(j)
    \/ \E j \in Jobs : Runner(j)
    \/ \E j \in Jobs : RetentionElapsed(j)
    \/ \E j \in Jobs : Evict(j)
    \/ \E id \in QueryIds, c \in ChatIds : StatusCall(id, c)
    \/ \E c \in Callers, id \in QueryIds, ch \in ChatIds : CancelCall(c, id, ch)
    \/ \E c \in Callers : CancelResume(c)

Spec == Init /\ [][Next]_vars

\* The control plane behind the middleware: the steps of Next are those of
\* requests that validate_bearer_token lets through; the others are rejected.
ApiNext ==
    \/ Next
    \/ \E header \in ApiKeys : RequestRejected(header)

ApiSpec == Init /\ [][ApiNext]_vars

\* The link converter alone, applied to every link of the bounded set.
UrlInit ==
    /\ share_url \in Urls
    /\ download_url = None
    /\ JobsIdle
    /\ ZipIdle
    /\ BusIdle
    /\ SelIdle
    /\ RestIdle

UrlNext == Convert

UrlSpec == UrlInit /\ [][UrlNext]_vars

\* One connection alone, from the spawn of its two tasks.
WsInit ==
    /\ recv_task = "next"
    /\ send_task = "select"
    /\ internal = <<>>
    /\ accept = "select"
    /\ ws_in = <<>>
    /\ ws_out = <<>>
    /\ client_messages = 0
    /\ JobsIdle
    /\ UrlIdle
    /\ ZipIdle
    /\ BusIdle
    /\ SelIdle
    /\ CtrIdle
    /\ DlIdle

WsNext ==
    \/ \E frame \in Frames : process_incoming_next(frame)
    \/ process_incoming_end
    \/ process_incoming_send
    \/ \E ok \in BOOLEAN : process_outgoing_internal(ok)
    \/ \E ok \in BOOLEAN : process_outgoing_broadcast(ok)
    \/ \E arm \in {"send_task", "recv_task"} : accept_select(arm)
    \/ accept_join

WsSpec == WsInit /\ [][WsNext]_vars

\* The runtime polls every spawned task that is ready; the peer owes nothing.
WsFairSpec ==
    /\ WsSpec
    /\ WF_vars(process_incoming_send)
    /\ WF_vars(\E ok \in BOOLEAN : process_outgoing_internal(ok))
    /\ WF_vars(\E arm \in {"send_task", "recv_task"} : accept_select(arm))
    /\ WF_vars(accept_join)

\* The counter alone, from values around the carries of a u32, in a build
\* with and in a build without overflow checks.
CtrEdge == {0, 1, HalfWord - 2, HalfWord - 1}

CtrInit ==
    /\ ctr \in CtrEdge \X CtrEdge
    /\ ctr_id = None
    /\ ctr_ret = NoCall
    /\ overflow_checks \in BOOLEAN
    /\ calls = 0
    /\ JobsIdle
    /\ UrlIdle
    /\ ZipIdle
    /\ BusIdle
    /\ SelIdle
    /\ WsIdle
    /\ DlIdle

CtrNext ==
    \/ increment_load
    \/ increment_store

CtrSpec == CtrInit /\ [][CtrNext]_vars

\* One download job alone, from the Running status on.
PipelineInit ==
    /\ dl_pc = "download"
    /\ dl_status = DownloadZipFileStatus("Running", "-")
    /\ spawned = FALSE
    /\ zip_len \in 0..MaxEntries
    /\ zip_i = 0
    /\ zip_entry = NoEntry
    /\ extracted = {}
    /\ unzip_ret = None
    /\ JobsIdle
    /\ UrlIdle
    /\ BusIdle
    /\ SelIdle
    /\ WsIdle
    /\ CtrIdle

PipelineNext ==
    \/ \E ok \in BOOLEAN : pipeline_download(ok)
    \/ \E name \in EntryNames, io \in {"none", "by_index", "create", "copy"} :
           blocking_unzip_entry(name, io)
    \/ blocking_unzip_return
    \/ pipeline_join
    \/ \E b \in {"timeout", "cancel"} : pipeline_dropped(b)

PipelineSpec == PipelineInit /\ [][PipelineNext]_vars

\* The bus alone: publishers, connections and the output tracers.
BusInit ==
    /\ BusIdle
    /\ JobsIdle
    /\ UrlIdle
    /\ ZipIdle
    /\ SelIdle
    /\ RestIdle

Explored ==
    Cardinality({s \in Subscribers :
                    conn[s] = "open" /\ tail - next[s] >= PromptWindow}) <= MaxSlow

BusNext ==
    \/ Explored /\ broadcast
    \/ \E s \in Subscribers : accept_connection(s)
    \/ \E s \in Subscribers, sent \in BOOLEAN : outgoing_recv(s, sent)
    \/ \E s \in Subscribers : outgoing_close(s)
    \/ \E t \in {"Stdout", "Stderr"} : trace_line(t)

BusSpec == BusInit /\ [][BusNext]_vars

\* The select! of run_os_process alone, for every timeout of Timeouts and
\* every state of the child and the cancel channel at the first poll.
SelectInit ==
    /\ sel \in {[NoSel EXCEPT !.timeout = t, !.elapsed = (t = 0), !.exited = e,
                              !.signal = c, !.pc = "race",
                              !.status = ProcessStatus("Running", "-")] :
                    t \in Timeouts, e \in BOOLEAN, c \in BOOLEAN}
    /\ JobsIdle
    /\ UrlIdle
    /\ ZipIdle
    /\ BusIdle
    /\ RestIdle

SelectNext ==
    \/ sleep_elapses
    \/ child_exits
    \/ cancel_arrives
    \/ \E start \in 0..(BRANCHES - 1), r \in {"Success", "Failure", "WaitErr"} :
           select_poll(start, r)
    \/ \E ok \in BOOLEAN : select_kill(ok)
    \/ \E ok \in BOOLEAN : select_wait(ok)

SelectSpec == SelectInit /\ [][SelectNext]_vars

\* Task::unzip alone, on every archive of up to MaxEntries entries.
UnzipInit ==
    /\ zip_len \in 0..MaxEntries
    /\ zip_i = 0
    /\ zip_entry = NoEntry
    /\ extracted = {}
    /\ unzip_ret = None
    /\ JobsIdle
    /\ UrlIdle
    /\ BusIdle
    /\ SelIdle
    /\ RestIdle

UnzipNext ==
    \/ \E name \in EntryNames, io \in {"none", "by_index", "create", "copy"} :
           unzip_entry(name, io)
    \/ unzip_return

UnzipSpec == UnzipInit /\ [][UnzipNext]_vars

\* The runtime polls every spawned task again and again, and kill / wait on
\* the child return: each runner keeps taking steps while it has one to take.
FairSpec == Spec /\ \A j \in Jobs : WF_vars(Runner(j))

\* The steps of a runner that do not depend on the child or the download: the
\* first poll of the spawned task, the timer of the timeout branch, the
\* receipt of a ready cancel signal, and kill / wait on the child returning.
\* The child's own exit and the end of a download may never come.
RunnerDue(j) ==
    \/ \E ok \in BOOLEAN : Spawn(j, ok)
    \/ ProcessTimeout(j)
    \/ ProcessCancel(j)
    \/ \E ok \in BOOLEAN : Kill(j, ok)
    \/ \E ok \in BOOLEAN : Wait(j, ok)
    \/ DownloadStart(j)
    \/ \E b \in {"timeout", "cancel"} : DownloadFinish(j, b)

TimerFairSpec == Spec /\ \A j \in Jobs : WF_vars(RunnerDue(j))

\* The steps of a runner that depend neither on the child's exit, nor on the
\* download, nor on the timer: neither a natural exit nor a timeout need come.
CancelDue(j) ==
    \/ \E ok \in BOOLEAN : Spawn(j, ok)
    \/ ProcessCancel(j)
    \/ \E ok \in BOOLEAN : Kill(j, ok)
    \/ \E ok \in BOOLEAN : Wait(j, ok)
    \/ DownloadStart(j)
    \/ DownloadFinish(j, "cancel")

CancelFairSpec == Spec /\ \A j \in Jobs : WF_vars(CancelDue(j))

\* The steps that owe nothing to the child, the download or a timer, and the
\* steps of the RwLock: tokio's RwLock is fair, it grants a queued write()
\* once the guards before it are dropped, and a submission that holds the
\* guard runs to its return.
LockDue(j) ==
    \/ CancelDue(j)
    \/ Insert(j)
    \/ SubmitReturn(j)
    \/ Evict(j)

LockFairSpec ==
    /\ Spec
    /\ \A j \in Jobs : WF_vars(LockDue(j))
    /\ \A c \in Callers : WF_vars(CancelResume(c))

\* ---------------------------------------------------------------- claims
\* The record a lookup of (id, chat_id) hits, read off the map itself.
Hit(id, chat_id) == id \in DOMAIN tasks /\ tasks[id].chat_id = chat_id
RetIsLookup == ret.op \in {"status", "cancel"}

\* C1: task_status and cancel_task return None exactly when the map holds no
\* record under the id or the record's chat_id differs from the given one; in
\* both cases the result and the HTTP answer are the same 404 NotFound.
C1_NoneIffAbsentOrForeign ==
    RetIsLookup =>
        /\ (ret.res = None) <=> ~Hit(ret.id, ret.chat_id)
        /\ ~Hit(ret.id, ret.chat_id) => ret.http = [code |-> 404, body |-> "NotFound"]
        /\ Hit(ret.id, ret.chat_id) => ret.http.code = 200

C1_Witness ==
    /\ RetIsLookup
    /\ ret.id \in DOMAIN tasks
    /\ tasks[ret.id].chat_id # ret.chat_id
    /\ ret.res = None

\* C2: from the return of its submission until its own eviction a job is
\* visible to status / cancel under its id and chat_id, and invisible under
\* its id and any other chat_id.
C2_VisibleToOwnerOnly ==
    \A j \in Jobs :
        (Returned(j) /\ pc[j] # "done") =>
            /\ task_status(JobId(j), chat[j]) # None
            /\ cancel_task(JobId(j), chat[j]) # None
            /\ \A c \in ChatIds \ {chat[j]} :
                   /\ task_status(JobId(j), c) = None
                   /\ cancel_task(JobId(j), c) = None

\* C3: any two calls of the id allocator return different values.
C3_AllocatorValuesDistinct ==
    \A i, j \in Jobs :
        (i # j /\ pc[i] # "idle" /\ pc[j] # "idle") => local_id[i] # local_id[j]

\* C4: ids start at "0" and the n-th submission to allocate an id gets the
\* decimal string of n-1, so ids strictly increase and are never reused.
C4_NthSubmissionGetsNMinus1 ==
    \A j \in Jobs : pc[j] # "idle" => JobId(j) = to_string(j - 1)

\* C5: the values written to a job's status are Created, then at most one
\* Running, then one terminal value; nothing is written after a terminal value.
ValidWalk(h) ==
    /\ Len(h) <= 3
    /\ Len(h) >= 1 => h[1].status = "Created"
    /\ Len(h) = 2 => (h[2].status = "Running" \/ IsTerminal(h[2]))
    /\ Len(h) = 3 => (h[2].status = "Running" /\ IsTerminal(h[3]))

C5_StatusWalk ==
    \A j \in Jobs :
        /\ ValidWalk(hist[j])
        /\ hist[j] # <<>> => status[j] = hist[j][Len(hist[j])]
        /\ pc[j] \in {"sleep", "evict"} <=> IsTerminal(status[j])

C5_Witness ==
    /\ ret.op = "cancel"
    /\ ret.res # None
    /\ ret.id \in DOMAIN tasks
    /\ LET j == tasks[ret.id].handle IN
       /\ Len(hist[j]) = 3
       /\ status[j].status \in {"Timeout", "Exited"}

\* C6: the status of a Download job's record is always a Download variant, and
\* the status of a process job's record is always a Process variant.
C6_StatusVariantMatchesKind ==
    \A id \in DOMAIN tasks :
        LET j == tasks[id].handle IN
        /\ kind[j] = "Download" => status[j].type = "Download"
        /\ kind[j] = "Converter" => status[j].type = "Process"

\* C7: cancel_task never suspends its caller: no caller is ever left waiting
\* in the send on the cancel channel.
C7_CancelNeverBlocks == \A c \in Callers : cpc[c] # "send"

\* C8: cancel_task on an existing record owned by chat_id returns Some(id) in
\* every job state, however often it is repeated, and no step of a cancel
\* changes any status.
C8_CancelIdempotent ==
    /\ [](ret.op = "cancel" /\ Hit(ret.id, ret.chat_id) => ret.res = Some(ret.id))
    /\ [][(ret'.op = "cancel" \/ cpc' # cpc) => status' = status]_vars

C8_Witness ==
    /\ ret.op = "cancel"
    /\ ret.res = Some(ret.id)
    /\ ret.waited
    /\ ret.id \in DOMAIN tasks
    /\ IsTerminal(status[tasks[ret.id].handle])

\* C9: once the runner of a process job has taken the cancel branch, the
\* status eventually is Canceled, unless kill or wait fails and the status
\* says so (Failed{AfterCancelOnKill} or Failed{AfterCancelOnWait}).
CancelBranchOutcomes ==
    {ProcessStatus("Canceled", "-"), ProcessStatus("Failed", "AfterCancelOnKill"),
     ProcessStatus("Failed", "AfterCancelOnWait")}

C9_WitnessReturnsWhileRunning ==
    /\ ret.op = "cancel"
    /\ ret.res # None
    /\ ret.id \in DOMAIN tasks
    /\ status[tasks[ret.id].handle] = ProcessStatus("Running", "-")

\* C10: between its terminal write and its removal a job's owner reads the
\* terminal status from task_status, and after the removal the id is unknown.
C10_TerminalStatusReadableUntilRemoval ==
    \A j \in Jobs :
        /\ pc[j] \in {"sleep", "evict"} => task_status(JobId(j), chat[j]) = Some(status[j])
        /\ pc[j] = "done" => task_status(JobId(j), chat[j]) = None

\* C11: a submission that returns an id leaves its record in the registry, and
\* a task_status call by the owner made after that return and before the job's
\* eviction never answers None.
C11_StatusKnownFromReturnToEviction ==
    /\ (ret.op \in Kinds /\ ret.res[1] = "Ok") => Hit(ret.id, ret.chat_id)
    /\ \A j \in Jobs :
           (/\ ret.op = "status"
            /\ ret.id = JobId(j)
            /\ ret.chat_id = chat[j]
            /\ Returned(j)
            /\ pc[j] # "done") => ret.res # None

\* C12 (as claimed): at the instant a submission returns its id, the job's
\* status is still Created: the runner has written neither Running nor a
\* terminal value.
C12_ReturnsBeforeRunning ==
    [][\A j \in Jobs : (wguard = j /\ wguard' = 0) => status[j] = TaskNewStatus]_vars

\* C12 (amended): the runner writes its first status only after the record is
\* inserted and the task spawned, and the submission returns without waiting
\* for it: at the instant of the return the job's record is in the registry
\* and the status is Created, Running or terminal.
C12_RunnerWritesAfterInsert ==
    [][\A j \in Jobs :
          /\ (status[j] = TaskNewStatus /\ status'[j] # status[j]) => pc[j] = "start"
          /\ (wguard = j /\ wguard' = 0) =>
                 /\ JobId(j) \in DOMAIN tasks
                 /\ tasks[JobId(j)] = TaskData(chat[j], j)
                 /\ status[j].status \in {"Created", "Running"} \cup TerminalNames]_vars

C12_Witness ==
    /\ ret.op \in Kinds
    /\ ret.res = <<"Ok", ret.id>>
    /\ ret.id \in DOMAIN tasks
    /\ status[tasks[ret.id].handle].status = "Running"

\* C18: a submission that fails synchronously returns NotFound (converter) or
\* the I/O error (download) and changes nothing: the step that returns the
\* error leaves the id counter, the registry and every job slot (so also the
\* set of started runners) as they were.
C18_FailedSubmissionChangesNothing ==
    [][(ret'.op \in Kinds /\ ret'.res[1] = "Err") =>
          /\ ret'.op = "Converter" => ret'.res = Err("NotFound")
          /\ ret'.op = "Download" => ret'.res = Err("io::Error")
          /\ UNCHANGED <<current_id, tasks, pc, local_id, status, hist, chan>>]_vars

C18_Witness ==
    /\ ret.op = "Converter"
    /\ ret.res = Err("NotFound")
    /\ current_id = 1
    /\ DOMAIN tasks = {"0"}
    /\ \E j \in Jobs : pc[j] = "idle"

\* C19: every job whose runner has been started eventually has a terminal
\* status, with a child that never exits, a download that never completes and
\* no cancel included, because the timeout branch of the race always fires.
C19_StartedRunnerTerminates ==
    \A j \in Jobs : (pc[j] = "start") ~> IsTerminal(status[j])

C19_Witness ==
    \E j \in Jobs :
        /\ pc[j] = "sleep"
        /\ chan[j] = 0
        /\ cpc = [c \in Callers |-> "idle"]
        /\ hist[j] = <<TaskNewStatus, ProcessStatus("Running", "-"),
                       ProcessStatus("Timeout", "-")>>

\* The reference function of C17: r is its result on u when the text put
\* after "id=" for a third segment seg is IdText[seg].
RECURSIVE SegmentText(_)
SegmentText(seg) == IF seg = <<>> THEN "" ELSE Head(seg) \o SegmentText(Tail(seg))

C17_IsReferenceResult(u, r, IdText) ==
    CASE u.scheme # "https" -> r = Err("InvalidScheme")
      [] u.scheme = "https" /\ u.host = None -> r = Err("NoHost")
      [] u.scheme = "https" /\ u.host \notin {None, Some("drive.google.com")} ->
             r = Err("InvalidHost")
      [] u.scheme = "https" /\ u.host = Some("drive.google.com") ->
             IF u.path_segments = None \/ Len(u.path_segments[2]) < 3
               THEN r \in {Err("NoSegments"), Err("NoIdInPath")}
               ELSE r = Ok("https://drive.google.com/uc?export=download&id="
                           \o IdText[u.path_segments[2][3]])

\* C17 (as claimed): the converter's result equals the reference function's,
\* whose Ok value ends in "id=" followed by the third path segment as it is.
C17_EqualsReference ==
    download_url # None =>
        C17_IsReferenceResult(share_url, download_url[2],
                              [seg \in Segments |-> SegmentText(seg)])

\* C17 (amended): the same, with the third path segment serialised as a
\* form-urlencoded query value after "id=".
C17_EqualsReferenceEncoded ==
    download_url # None =>
        C17_IsReferenceResult(share_url, download_url[2],
                              [seg \in Segments |-> append_pair_value(seg)])

C17_Witness ==
    /\ share_url.scheme = "https"
    /\ share_url.query # None
    /\ share_url.path_segments = Some(<<<<"d">>, <<>>, <<"x", "=", "y">>, <<"d">>>>)
    /\ download_url = Some(Ok("https://drive.google.com/uc?export=download&id=x%3Dy"))

\* C13: every file the extraction creates lies directly in project_dir and
\* is named by the last path segment of its entry (the last segment that is a
\* name, not an empty or `.` segment); nothing is created outside project_dir
\* or below a subdirectory of it.
C13_LastSegment(name) ==
    LET named == {k \in 1..Len(name) : name[k] \notin {"", "."}} IN
    name[CHOOSE k \in named : \A m \in named : m <= k]

C20_MissingIs400InvalidIs401 ==
    /\ \A header \in ApiKeys :
           validate_bearer_token(header)[1] = "Ok" <=> header = Some(api_token)
    /\ ret.op = "middleware" =>
           IF ret.api_key = None
             THEN ret.http = [code |-> 400, body |-> "ApiKeyMissing"]
             ELSE ret.http = [code |-> 401, body |-> "ApiKeyInvalid"]

\* The part of C20 about the registry: the step of a rejected request leaves
\* the id counter, the registry and every job as they were.
C20_RejectedChangesNothing ==
    [][ret'.op = "middleware" =>
          UNCHANGED <<current_id, tasks, pc, local_id, status, hist, chan>>]_vars

\* A step that publishes an event, a step that writes an event to the socket
\* of connection s, a step in which connection s learns that it has lagged.
Published == bret'.op = "broadcast" /\ tail' = tail + 1
Delivered(s) == bret'.op = "recv" /\ bret'.sub = s /\ bret'.res[1] = "Ok"
Lagged(s) == bret'.op = "recv" /\ bret'.sub = s /\ bret'.res[1] = "Err"
\* The oldest event connection s has not received is no longer in the channel.
OldestDropped(s) == next[s] < tail /\ slot_pos(next[s] % Capacity) # next[s]

\* C14 (as claimed): when a connection has 100 undelivered events, the next
\* publish drops the oldest of them.
C14_DropsOldestAt100 ==
    [][Published =>
          \A s \in Subscribers :
              (conn[s] = "open" /\ tail - next[s] >= RequestedCapacity) =>
                  OldestDropped(s)']_vars

\* C14 (amended): a publish drops the oldest undelivered event of exactly the
\* connections that have Capacity (128) undelivered events; a connection that
\* learns of its lag keeps running and resumes with the oldest event still
\* held, and the step changes nothing for the other connections.  A publish
\* with or without connections returns and changes no connection.
C14_DropsOldestAtCapacity ==
    [][/\ bret'.op = "broadcast" =>
             /\ UNCHANGED <<next, conn>>
             /\ bret'.res = IF rx_cnt = 0 THEN Err("SendError") ELSE Ok(rx_cnt)
             /\ Published <=> rx_cnt > 0
       /\ Published =>
             \A s \in Subscribers :
                 conn[s] = "open" =>
                     (OldestDropped(s)' <=> tail - next[s] >= Capacity)
       /\ \A s \in Subscribers :
              Lagged(s) =>
                  /\ conn'[s] = "open"
                  /\ next'[s] = tail - Capacity
                  /\ ~OldestDropped(s)'
                  /\ \A t \in Subscribers \ {s} :
                         next'[t] = next[t] /\ conn'[t] = conn[t]]_vars

C14_Witness ==
    /\ bret.op = "recv"
    /\ bret.res = Err(<<"Lagged", 2>>)
    /\ conn[bret.sub] = "open"
    /\ \E t \in Subscribers \ {bret.sub} : conn[t] = "open" /\ next[t] = tail

\* C15: a connection receives events in publication order, starting with the
\* first one published after its subscribe(), and while it is at most 100
\* events behind it receives each next event, without gap or duplicate.
C15_InOrderNoGap ==
    [][\A s \in Subscribers :
          /\ (conn[s] = "none" /\ conn'[s] = "open") => next'[s] = tail
          /\ (conn[s] = "open" /\ conn'[s] = "open") =>
                 /\ next'[s] >= next[s]
                 /\ Delivered(s) =>
                        /\ bret'.res[2] >= next[s]
                        /\ next'[s] = bret'.res[2] + 1
                        /\ bret'.frame = to_json(TaskIoChunk(bret'.res[2]))
                 /\ tail - next[s] <= RequestedCapacity =>
                        \/ next'[s] = next[s] /\ ~Delivered(s)
                        \/ Delivered(s) /\ bret'.res[2] = next[s]]_vars

C15_Witness ==
    /\ bret.op = "recv"
    /\ bret.sub = 2
    /\ bret.res = Ok(101)
    /\ bret.frame = "{\"server_message\":\"TaskIoChunk\",\"content\":{\"id\":\"0\",\"chunk\":\"101\",\"io_type\":\"Stderr\"}}"
    /\ next[2] = 102
    /\ conn[1] = "open" /\ next[1] = 0

\* C16: every chunk of a child's output that the job's tracer reads is
\* published on the bus as a TaskIoChunk.
C16_ChunksArePublished ==
    [][bret'.op = "trace" => (rx_cnt > 0 => tail' = tail + 1)]_vars

\* C21: a cancel_task call on an id the map does not hold, or with a chat_id
\* that differs from the record's, sends nothing and leaves every channel,
\* every status and the map as they were; a signal is put on a job's channel
\* only by a cancel whose id and chat_id both match that job's record.
C21_SignalOnlyOnMatchingRecord ==
    [][/\ (ret'.op = "cancel" /\ ~Hit(ret'.id, ret'.chat_id)) =>
             /\ ret'.res = None
             /\ UNCHANGED <<chan, status, hist, tasks, cpc, creq>>
       /\ \A j \in Jobs :
              chan'[j] > chan[j] =>
                  /\ ret'.op = "cancel"
                  /\ ret'.id \in DOMAIN tasks
                  /\ tasks[ret'.id] = TaskData(ret'.chat_id, j)]_vars

C21_Witness ==
    /\ ret.op = "cancel"
    /\ ret.res = None
    /\ ret.id \in DOMAIN tasks
    /\ tasks[ret.id].chat_id # ret.chat_id
    /\ status[tasks[ret.id].handle].status = "Running"
    /\ chan[tasks[ret.id].handle] = 0

\* C22: a job's status is written only by the one task spawned for that job,
\* in a step of that task's runner (after the initial value of Task::new, and
\* until the record's Data is freed): a step of task_status, of cancel_task,
\* of a submission or of an eviction writes no status, and a step in which
\* one job's status is written is a step of no other job.
RunnerPositions == {"start", "race", "t_kill", "t_wait", "c_kill", "c_wait"}

C22_RunnerIsOnlyStatusWriter ==
    [][\A j \in Jobs :
          hist'[j] # hist[j] =>
              \/ pc[j] = "loaded" /\ hist'[j] = <<TaskNewStatus>>
              \/ pc[j] = "evict" /\ pc'[j] = "done" /\ hist'[j] = <<>>
              \/ /\ pc[j] \in RunnerPositions
                 /\ pc'[j] \in RunnerPositions \cup {"sleep"}
                 /\ pc'[j] # pc[j]
                 /\ Len(hist'[j]) = Len(hist[j]) + 1
                 /\ \A i \in Jobs \ {j} : pc'[i] = pc[i] /\ hist'[i] = hist[i]
                 /\ ret' = NoRet
                 /\ UNCHANGED <<tasks, cpc, creq, current_id, wguard>>]_vars

C22_Witness ==
    /\ ret.op = "cancel"
    /\ ret.res = Some(ret.id)
    /\ tasks[ret.id].handle = 1
    /\ pc[1] = "race"
    /\ hist[1] = <<TaskNewStatus, ProcessStatus("Running", "-")>>
    /\ chan[1] = 1
    /\ pc[2] = "done"

\* C23: when spawning the child fails, the process runner writes the one
\* status Failed{OnSpawn} and returns: the write is made from the position
\* before the spawn and leads straight to the end of the runner, so Running
\* is never written, the race is never entered (neither the timeout nor the
\* cancel channel is consulted, even when a cancel is pending) and no kill or
\* wait is attempted.
OnSpawn == ProcessStatus("Failed", "OnSpawn")

C23_SpawnFailureWritesOnlyOnSpawn ==
    /\ [](\A j \in Jobs :
             (\E n \in 1..Len(hist[j]) : hist[j][n] = OnSpawn) =>
                 /\ hist[j] = <<TaskNewStatus, OnSpawn>>
                 /\ pc[j] \in {"sleep", "evict"})
    /\ [][\A j \in Jobs :
             (status'[j] = OnSpawn /\ status[j] # OnSpawn) =>
                 /\ kind[j] = "Converter"
                 /\ pc[j] = "start"
                 /\ pc'[j] = "sleep"
                 /\ UNCHANGED <<cpc, creq, tasks>>]_vars

C23_Witness ==
    \E j \in Jobs, c \in Callers :
        /\ status[j] = OnSpawn
        /\ pc[j] = "sleep"
        /\ cpc[c] = "send"
        /\ creq[c].id \in DOMAIN tasks
        /\ tasks[creq[c].id].handle = j

\* C24: the terminal status of a process job comes from the branch of the
\* race that was entered: from the timeout branch only Timeout or
\* Failed{AfterTimeoutOnKill | AfterTimeoutOnWait}, from the cancel branch
\* only Canceled or Failed{AfterCancelOnKill | AfterCancelOnWait}, from the
\* natural exit only Exited or Failed{OnWait}; once a branch is entered the
\* runner stays in it, whatever cancel or timeout comes later.
TimeoutBranchOutcomes ==
    {ProcessStatus("Timeout", "-"), ProcessStatus("Failed", "AfterTimeoutOnKill"),
     ProcessStatus("Failed", "AfterTimeoutOnWait")}
ExitBranchOutcomes ==
    {ProcessStatus("Exited", "Success"), ProcessStatus("Exited", "Failure"),
     ProcessStatus("Failed", "OnWait")}

C24_BranchOutcomes(from, stay, outcomes, j) ==
    pc[j] \in from =>
        /\ pc'[j] \in stay \cup {"sleep"}
        /\ IF pc'[j] = "sleep" THEN status'[j] \in outcomes
                               ELSE status'[j] = status[j]

C24_StatusFromEnteredBranch ==
    [][\A j \in Jobs :
          kind[j] = "Converter" =>
              /\ C24_BranchOutcomes({"t_kill", "t_wait"}, {"t_kill", "t_wait"},
                                    TimeoutBranchOutcomes, j)
              /\ C24_BranchOutcomes({"c_kill", "c_wait"}, {"c_kill", "c_wait"},
                                    CancelBranchOutcomes, j)
              /\ C24_BranchOutcomes({"race"}, {"race", "t_kill", "c_kill"},
                                    ExitBranchOutcomes, j)]_vars

C24_Witness ==
    \E j \in Jobs, c \in Callers :
        /\ status[j] = ProcessStatus("Timeout", "-")
        /\ pc[j] = "sleep"
        /\ cpc[c] = "send"
        /\ creq[c].id \in DOMAIN tasks
        /\ tasks[creq[c].id].handle = j

\* C25: after a successful spawn a process runner stores a terminal status
\* only once a wait on the child has been made: the step that writes it is
\* the return of child.wait(), in the race or after a kill.
C25_WaitBeforeTerminalStatus ==
    [][\A j \in Jobs :
          (/\ kind[j] = "Converter"
           /\ IsTerminal(status'[j])
           /\ ~IsTerminal(status[j])
           /\ status'[j] # ProcessStatus("Failed", "OnSpawn")) =>
              pc[j] \in {"race", "t_wait", "c_wait"}]_vars

\* The finite part of C26 for a process job j: a signal buffered before the
\* race stays buffered until the runner takes it, and the terminal status of
\* a runner that ends with the signal pending before the spawn, or in the
\* cancel branch, is one of `outcomes`.
C26_SignalKept(outcomes) ==
    \A j \in Jobs :
        kind[j] = "Converter" =>
            /\ (pc[j] \in {"start", "race"} /\ chan[j] = 1
                  /\ pc'[j] \in {"start", "race"}) => chan'[j] = 1
            /\ (pc[j] = "start" /\ chan[j] = 1 /\ IsTerminal(status'[j])) =>
                   status'[j] \in outcomes
            /\ (pc[j] \in {"c_kill", "c_wait"} /\ IsTerminal(status'[j])) =>
                   status'[j] \in outcomes

\* C26 (as claimed): a cancel signal sent before the runner has spawned the
\* child is kept, and the terminal status the runner then reaches without a
\* natural exit or a timeout is Canceled.
C26_PendingCancelEndsCanceled ==
    [][C26_SignalKept({ProcessStatus("Canceled", "-")})]_vars

\* C26 (amended): a cancel signal sent before the runner has spawned the
\* child is kept; with neither a natural exit nor a timeout to help, the
\* runner still reaches a terminal status and returns, and that status is
\* Canceled, or the Failed status of the spawn, kill or wait that failed.
C26_PendingCancelTerminates ==
    /\ [][C26_SignalKept(CancelBranchOutcomes
                            \cup {ProcessStatus("Failed", "OnSpawn")})]_vars
    /\ \A j \in Jobs :
           (pc[j] = "start" /\ chan[j] = 1) ~> (pc[j] = "sleep" /\ IsTerminal(status[j]))

C26_Witness ==
    /\ ret.op = "cancel"
    /\ ret.res = Some(ret.id)
    /\ ret.id \in DOMAIN tasks
    /\ LET j == tasks[ret.id].handle IN
       /\ kind[j] = "Converter"
       /\ pc[j] = "start"
       /\ status[j] = TaskNewStatus
       /\ chan[j] = 1

\* C27: once a job's Handle is dropped while its runner has not finished the
\* race, the cancel branch is ready as after a cancel signal (the runner can
\* take it at once): with neither a natural exit nor a timeout to help, the
\* runner reaches a terminal status and returns, and a runner that leaves the
\* race for a branch other than the timeout's or the natural exit enters the
\* cancel branch.  Dropping the Handle of a job whose terminal status is
\* written changes nothing of the job (its Data is freed when it is its own
\* removal that drops the Handle).
C27_DropIsCancel ==
    /\ [](\A j \in Jobs :
             (pc[j] = "race" /\ ~HandleAlive(j)) =>
                 IF kind[j] = "Converter" THEN ENABLED ProcessCancel(j)
                                          ELSE ENABLED DownloadFinish(j, "cancel"))
    /\ \A j \in Jobs :
           (pc[j] \in {"start", "race"} /\ ~HandleAlive(j)) ~>
               (pc[j] = "sleep" /\ IsTerminal(status[j]))
    /\ [][\A j \in Jobs :
             /\ (pc[j] = "race" /\ ~HandleAlive(j) /\ pc'[j] # "race") =>
                    \/ pc'[j] \in {"t_kill", "c_kill"}
                    \/ /\ kind[j] = "Converter"
                       /\ status'[j] \in ExitBranchOutcomes
                    \/ /\ kind[j] = "Download"
                       /\ status'[j].status \in TerminalNames
             /\ (HandleAlive(j) /\ ~HandleAlive(j)' /\ IsTerminal(status[j])) =>
                    \/ pc'[j] = "done"
                    \/ /\ pc'[j] = pc[j]
                       /\ status'[j] = status[j]
                       /\ hist'[j] = hist[j]
                       /\ chan'[j] = chan[j]]_vars

C27_Witness ==
    \E j \in Jobs :
        /\ kind[j] = "Converter"
        /\ pc[j] = "c_kill"
        /\ ~HandleAlive(j)
        /\ cpc = [c \in Callers |-> "idle"]
        /\ \A id \in DOMAIN tasks : tasks[id].chat_id # chat[j]

C29_RemovedByOwnerAfterTerminal ==
    [][\A id \in DOMAIN tasks :
          (id \notin DOMAIN tasks' \/ tasks'[id] # tasks[id]) =>
              LET j == tasks[id].handle IN
              /\ id \notin DOMAIN tasks'
              /\ pc[j] = "evict"
              /\ pc'[j] = "done"
              /\ IsTerminal(status[j])]_vars

\* C30: the download runner first writes Running, whatever is pending, and
\* then one terminal status: Timeout from the timeout branch, Canceled from
\* the cancel branch (which needs a signal or a dropped Handle), Exited when
\* the pipeline succeeds and Failed{reason} when it returns an error.
DownloadOutcomes ==
    {DownloadZipFileStatus("Timeout", "-"), DownloadZipFileStatus("Canceled", "-"),
     DownloadZipFileStatus("Exited", "-"), DownloadZipFileStatus("Failed", "reason")}

C30_DownloadRunningThenOneTerminal ==
    /\ [](/\ DownloadBranchStatus("timeout") = DownloadZipFileStatus("Timeout", "-")
          /\ DownloadBranchStatus("cancel") = DownloadZipFileStatus("Canceled", "-")
          /\ DownloadBranchStatus("ok") = DownloadZipFileStatus("Exited", "-")
          /\ DownloadBranchStatus("err") = DownloadZipFileStatus("Failed", "reason")
          /\ \A j \in Jobs :
                 kind[j] = "Download" =>
                     /\ Len(hist[j]) <= 3
                     /\ Len(hist[j]) >= 2 =>
                            hist[j][2] = DownloadZipFileStatus("Running", "-")
                     /\ Len(hist[j]) = 3 => hist[j][3] \in DownloadOutcomes)
    /\ [][\A j \in Jobs :
             kind[j] = "Download" =>
                 /\ (pc[j] = "start" /\ pc'[j] # "start") =>
                        /\ pc'[j] = "race"
                        /\ status'[j] = DownloadZipFileStatus("Running", "-")
                 /\ (pc[j] = "race" /\ pc'[j] # "race") =>
                        /\ pc'[j] = "sleep"
                        /\ status'[j] \in DownloadOutcomes
                        /\ hist'[j] = Append(hist[j], status'[j])
                        /\ status'[j] = DownloadZipFileStatus("Canceled", "-") =>
                               (chan[j] > 0 \/ ~HandleAlive(j))]_vars

C30_Witness ==
    \E j \in Jobs, c \in Callers :
        /\ kind[j] = "Download"
        /\ hist[j] = <<TaskNewStatus, DownloadZipFileStatus("Running", "-"),
                       DownloadZipFileStatus("Failed", "reason")>>
        /\ cpc[c] = "send"
        /\ creq[c].id \in DOMAIN tasks
        /\ tasks[creq[c].id].handle = j

\* C31: the extraction takes the entries in index order, one per pass, and
\* returns at the first pass that fails (entry unreadable, name without a
\* basename, create or copy error): the pipeline's result is that error, so
\* the job's status is Failed{reason}; no file made by an earlier pass is
\* removed, and no entry after the failing one is looked at.
C31_Failed(r) == r # None /\ r[2][1] = "Err"

C32_ReturnsAfterBothTasks ==
    accept = "returned" => recv_task = "done" /\ send_task = "done"

C32_Witness ==
    /\ accept = "returned"
    /\ recv_task = "done"
    /\ send_task = "done"
    /\ ws_in = <<<<"Ping">>>>
    /\ ws_out = <<"Pong">>

\* C33: the end of either task of a connection leads to the end of the other:
\* once process_incoming has ended process_outgoing eventually ends, once
\* process_outgoing has ended process_incoming eventually ends, and so
\* accept_connection eventually returns, whatever the peer does.
C33_EitherEndEndsTheOther ==
    /\ (recv_task = "done") ~> (send_task = "done")
    /\ (send_task = "done") ~> (recv_task = "done")
    /\ (recv_task = "done" \/ send_task = "done") ~> (accept = "returned")

\* The half of C33 the code keeps: the end of process_incoming ends
\* process_outgoing, and accept_connection then returns.
C33_IncomingEndEndsOutgoing ==
    (recv_task \in {"close", "done"}) ~> (send_task = "done" /\ accept = "returned")

\* A write error has ended process_outgoing and accept_connection awaits
\* process_incoming, which waits for the next frame of the peer.
C33_IncomingLeftWaiting ==
    /\ send_task = "done"
    /\ accept = "recv_task.await"
    /\ recv_task = "next"
    /\ ws_in = <<>>

\* C34: process_incoming goes back to reading after every inbound frame; a
\* ping puts exactly one pong on the internal channel to process_outgoing; a
\* binary, pong or close frame and a text that does not parse put nothing
\* there, write nothing to the socket and forward no client message; none of
\* them ends either task or the handler.
C34_FrameRead == recv_task = "next" /\ ws_in' # ws_in
C34_Frame == ws_in'[Len(ws_in')]
C34_PongSendResolves == recv_task = "pong" /\ recv_task' # "pong"

C34_OtherFramesDoNothing ==
    C34_FrameRead =>
        /\ recv_task' = (IF C34_Frame[1] = "Ping" THEN "pong" ELSE "next")
        /\ UNCHANGED <<internal, ws_out, client_messages, send_task, accept>>

C34_EveryPingEnqueuesOnePong ==
    [][/\ C34_OtherFramesDoNothing
       /\ C34_PongSendResolves =>
              /\ recv_task' = "next"
              /\ internal' = Append(internal, "Send(Pong)")
              /\ UNCHANGED <<ws_out, client_messages, send_task, accept>>]_vars

\* C34 as the code has it: the pong is put on the internal channel while
\* process_outgoing runs, and is dropped once process_outgoing has ended.
C34_PingEnqueuesOnePongWhileOutgoingRuns ==
    [][/\ C34_OtherFramesDoNothing
       /\ C34_PongSendResolves =>
              /\ recv_task' = "next"
              /\ internal' = (IF send_task = "done" THEN internal
                              ELSE Append(internal, "Send(Pong)"))
              /\ UNCHANGED <<ws_out, client_messages, send_task, accept>>]_vars

\* A first ping was answered; a second one, read after a write error had
\* ended process_outgoing, was dropped, and process_incoming reads on.
C34_Witness ==
    /\ ws_in = <<<<"Ping">>, <<"Ping">>>>
    /\ ws_out = <<"Pong">>
    /\ send_task = "done"
    /\ internal = <<>>
    /\ recv_task = "next"

\* C35: a failed write to one connection's socket ends that connection's
\* process_outgoing and nothing else: the step leaves the channel, the job
\* control plane and every other connection as they were; a publish stays
\* possible and never blocks, and is Ok while another receiver is left; and
\* every other open connection goes on receiving the events in order, each
\* next one while it is within the requested capacity.
C35_WriteError(s) ==
    /\ bret'.op = "recv"
    /\ bret'.sub = s
    /\ conn[s] = "open"
    /\ conn'[s] = "closed"

C35_SomeClosed == \E s \in Subscribers : conn[s] = "closed"

C35_WriteErrorEndsOnlyThatOutgoing ==
    /\ [][\A s \in Subscribers :
             C35_WriteError(s) =>
                 /\ tail' = tail
                 /\ UNCHANGED jobvars
                 /\ \A t \in Subscribers \ {s} :
                        conn'[t] = conn[t] /\ next'[t] = next[t]]_vars
    /\ [](tail < MaxPublish => ENABLED broadcast)
    /\ [][(C35_SomeClosed /\ bret'.op = "broadcast") =>
             /\ UNCHANGED <<conn, next>>
             /\ IF rx_cnt > 0 THEN tail' = tail + 1 /\ bret'.res = Ok(rx_cnt)
                ELSE tail' = tail]_vars
    /\ [][C35_SomeClosed =>
             \A t \in Subscribers :
                 (conn[t] = "open" /\ bret'.op = "recv" /\ bret'.sub = t
                    /\ tail - next[t] <= RequestedCapacity) =>
                     /\ bret'.res = Ok(next[t])
                     /\ conn'[t] = "closed" \/ next'[t] = next[t] + 1]_vars

\* Connection 1 ended on a failed write of event 0; connection 2 has since
\* received events 0 and 1.
C35_Witness ==
    /\ conn[1] = "closed"
    /\ conn[2] = "open"
    /\ tail = 2
    /\ next[2] = 2
    /\ bret.op = "recv"
    /\ bret.sub = 2
    /\ bret.res = Ok(1)

\* C36: the id counter wraps: a call of increment_current_task_id that finds
\* the counter at 2^32 - 1 returns 2^32 - 1 and leaves the counter at 0,
\* without panic, and the counter is not left at 2^32 - 1.
C36_WrapsAtU32Max ==
    [][(ctr_id = Some(U32Max) /\ ctr_id' = None) =>
           /\ ctr_ret' = <<"id", U32Max>>
           /\ ctr' = U32Zero]_vars

\* What the code has without overflow checks: the same call wraps.
C36_WrapsWithoutOverflowChecks ==
    [][(~overflow_checks /\ ctr_id = Some(U32Max) /\ ctr_id' = None) =>
           /\ ctr_ret' = <<"id", U32Max>>
           /\ ctr' = U32Zero]_vars

\* The second call in a row panicked and the counter is still at 2^32 - 1.
C36_Stuck ==
    /\ ctr_ret = <<"panic">>
    /\ calls = 2
    /\ ctr = U32Max
    /\ ctr_id = None

\* C37: once a job's record is inserted, the registry holds that record, and
\* with it the job's cancel Handle, until the removal step of that job's own
\* supervisor: no submission and no eviction of another job replaces, drops
\* or removes it.
C37_Registered(j) ==
    /\ pc[j] \notin PreInsert
    /\ JobId(j) \in DOMAIN tasks
    /\ tasks[JobId(j)].handle = j

C37_OwnEviction(j) == pc[j] = "evict" /\ pc'[j] = "done"

C37_RecordKeptUntilOwnEviction ==
    [][\A j \in Jobs :
          /\ (pc[j] = "wlock" /\ pc'[j] = "start") => C37_Registered(j)'
          /\ C37_Registered(j) =>
                 \/ C37_Registered(j)' /\ HandleAlive(j)'
                 \/ C37_OwnEviction(j)]_vars

\* C38: once a download job's status is Canceled or Timeout, its pipeline
\* does nothing more: no step after the status is stored creates or writes a
\* file in the project directory or moves the extraction on, also when the
\* extraction was already running on the blocking thread.
C38_Stopped ==
    dl_status \in {DownloadBranchStatus("cancel"), DownloadBranchStatus("timeout")}

C38_NoWorkAfterCanceledOrTimeout ==
    [][C38_Stopped => UNCHANGED <<extracted, zip_i, zip_entry>>]_vars

\* What the code keeps: a pipeline dropped before spawn_blocking never
\* extracts anything.
C38_NoWorkWhenDroppedBeforeSpawn ==
    [](C38_Stopped /\ ~spawned => extracted = {} /\ zip_i = 0)

\* The job is Timeout and the blocking thread has since extracted a file and
\* still runs.
C38_WritesAfterTimeout ==
    /\ dl_status = DownloadBranchStatus("timeout")
    /\ dl_pc = "returned"
    /\ spawned
    /\ zip_len = 2
    /\ zip_i = 1
    /\ extracted = {<<"projects", "p", "a">>}
    /\ unzip_ret = None

\* C39: the registry lock never deadlocks: under fair scheduling a cancel
\* call left pending in its send (holding the read guard) eventually returns,
\* a submission waiting for the write guard eventually gets it and returns,
\* a supervisor waiting for the write guard eventually evicts, and the lock
\* is free for a job_status call again and again. (A job leaves the wait for
\* the write guard only by getting it, so the last three are one statement:
\* again and again no write guard is waited for or held.)
C39_DeadlockFree ==
    /\ \A c \in Callers : (cpc[c] = "send") ~> (cpc[c] = "idle")
    /\ []<>(~WriterWaiting /\ ~WriteHeld)
    /\ [][\A j \in Jobs :
              /\ (pc[j] = "wlock" /\ pc'[j] # "wlock") => (pc'[j] = "start" /\ wguard' = j)
              /\ (pc[j] = "evict" /\ pc'[j] # "evict") =>
                     (pc'[j] = "done" /\ JobId(j) \notin DOMAIN tasks')]_vars

\* A cancel call is pending in its send, holding the read guard, while a
\* submission and a supervisor both wait for the write guard.
C39_Witness ==
    /\ \E c \in Callers : cpc[c] = "send"
    /\ \E j \in Jobs : pc[j] = "wlock"
    /\ \E j \in Jobs : pc[j] = "evict"
====
